---- MODULE Spec2Model ----
(***************************************************************************)
(* Model of the wagering core of FootballHeritage: the bet-placement       *)
(* transaction (backend/src/betting_simple.rs), the wallet deposit and     *)
(* withdraw handlers (backend/src/handlers/wallet.rs), the balance cipher  *)
(* (backend/backup/src/crypto.rs) and the rate limiters                    *)
(* (backend/src/rates.rs).                                                 *)
(*                                                                         *)
(* Money is in cents, odds in hundredths, time in minutes.  The store is   *)
(* PostgreSQL as the code uses it: pool.begin() opens a transaction at the *)
(* default READ COMMITTED level, every statement sees what is committed    *)
(* when it runs plus the transaction's own writes, an UPDATE waits for the *)
(* row lock of a concurrent uncommitted UPDATE, and a transaction dropped  *)
(* on an early return is rolled back.                                      *)
(***************************************************************************)
EXTENDS Integers, Sequences, FiniteSets, TLC

(* ------------------------------ bounds -------------------------------- *)
NumProcs == 2
MaxTicks == 1
MaxNonce == 1
MaxChecks == 4
NumCallers == 3
MaxRateTicks == 2
MaxAuthTicks == 2
MaxTokens == 1

Procs == 1..NumProcs
Nonces == 0..MaxNonce
Callers == 1..NumCallers

(* ------------------------- program constants -------------------------- *)
MinBet == 100
MaxVariance == 5
MinTransfer == 1000
MaxTransfer == 1000000
TenMinutes == 10
Day == 1440
VelocityThreshold == 10
MagnitudeFactor == 5
NonceLen == 12
bet_rate_limit_per_minute == 1
BetWindow == 60
DepositMax == 10
DepositWindow == 3600
DirectMax == 2
DirectWindow == 60
MaxTracked == 10000
EncryptionKey == 3
jwt_secret == 11
OtherSecret == 13
jwt_expiration_hours == 24
session_timeout_minutes == 30
Leeway == 1
AuthStep == 20

\* Option<T>: the empty sequence is None, a one-element sequence is Some(x)
NoneV == <<>>
Some(x) == <<x>>
IsSome(o) == o # <<>>
Unwrap(o) == o[1]

(* ------------------------------ cipher -------------------------------- *)
RECURSIVE to_string(_)
to_string(n) ==
  IF n < 10 THEN <<n>> ELSE to_string(n \div 10) \o <<n % 10>>

RECURSIVE from_str_acc(_, _)
from_str_acc(s, acc) ==
  IF s = <<>> THEN acc ELSE from_str_acc(Tail(s), acc * 10 + Head(s))

\* mutant: the text is parsed through a type that keeps four digits only
from_str_lossy(s) ==
  IF s # <<>> /\ \A i \in DOMAIN s : s[i] \in 0..9
  THEN Some(from_str_acc(SubSeq(s, 1, IF Len(s) < 4 THEN Len(s) ELSE 4), 0))
  ELSE NoneV

\* BigDecimal::from_str : None when the text is not a decimal number
from_str(s) ==
  IF s # <<>> /\ \A i \in DOMAIN s : s[i] \in 0..9 THEN Some(from_str_acc(s, 0)) ELSE NoneV

RECURSIVE SumSeq(_)
SumSeq(s) == IF s = <<>> THEN 0 ELSE Head(s) + SumSeq(Tail(s))

\* The 12-byte nonce drawn from OsRng, written out from the drawn value
NonceBytes(n) == [i \in 1..NonceLen |-> IF i = NonceLen THEN n ELSE 0]

KeyStream(key, nonce_bytes, i) == (key + 7 * SumSeq(nonce_bytes) + 3 * i) % 16

AuthTag(key, nonce_bytes, body) ==
  (11 * key + 5 * SumSeq(nonce_bytes) + SumSeq([i \in DOMAIN body |-> i * body[i]]) + Len(body)) % 251

\* Aes256Gcm encrypt : masked bytes followed by the authentication tag
AeadEncrypt(key, nonce_bytes, plain) ==
  LET body == [i \in DOMAIN plain |-> (plain[i] + KeyStream(key, nonce_bytes, i)) % 16]
  IN  body \o <<AuthTag(key, nonce_bytes, body)>>

\* mutant: the bytes are unmasked without verifying the tag
AeadDecryptUnverified(key, nonce_bytes, cipher) ==
  IF cipher = <<>> THEN NoneV
  ELSE LET body == SubSeq(cipher, 1, Len(cipher) - 1)
       IN  Some([i \in DOMAIN body |-> (body[i] + 16 - KeyStream(key, nonce_bytes, i)) % 16])

\* Aes256Gcm decrypt : None when the tag does not verify
AeadDecrypt(key, nonce_bytes, cipher) ==
  IF cipher = <<>> THEN NoneV
  ELSE LET body == SubSeq(cipher, 1, Len(cipher) - 1)
           tag  == cipher[Len(cipher)]
       IN  IF tag # AuthTag(key, nonce_bytes, body) THEN NoneV
           ELSE Some([i \in DOMAIN body |-> (body[i] + 16 - KeyStream(key, nonce_bytes, i)) % 16])

Base64Encode(bytes) == [i \in DOMAIN bytes |-> bytes[i] + 1000]

Base64Decode(text) ==
  IF \A i \in DOMAIN text : text[i] >= 1000 THEN Some([i \in DOMAIN text |-> text[i] - 1000]) ELSE NoneV

\* the tail of encrypt_balance: encrypt the bytes, encode ciphertext and nonce
SealBytes(encryption_key, nonce_bytes, amount_bytes) ==
  [encrypted_balance |-> Base64Encode(AeadEncrypt(encryption_key, nonce_bytes, amount_bytes)),
   encryption_iv     |-> Base64Encode(nonce_bytes)]

\* CryptoService::encrypt_balance of a service holding encryption_key
CryptoService_encrypt_balance(encryption_key, amount, n) ==
  SealBytes(encryption_key, NonceBytes(n), to_string(amount))

\* CryptoService::decrypt_balance of a service holding encryption_key:
\* Some(amount), or None for every branch that returns AppError::Encryption
CryptoService_decrypt_balance(encryption_key, encrypted_balance, iv) ==
  LET ciphertext  == Base64Decode(encrypted_balance)
      nonce_bytes == Base64Decode(iv)
  IN  IF ciphertext = NoneV \/ nonce_bytes = NoneV THEN NoneV
      ELSE IF Len(Unwrap(nonce_bytes)) # NonceLen THEN NoneV
      ELSE LET plaintext == AeadDecrypt(encryption_key, Unwrap(nonce_bytes), Unwrap(ciphertext))
           IN  IF plaintext = NoneV THEN NoneV ELSE from_str(Unwrap(plaintext))

\* the service the handlers build from config.encryption_key
encrypt_balance(amount, n) == CryptoService_encrypt_balance(EncryptionKey, amount, n)

decrypt_balance(encrypted_balance, iv) ==
  CryptoService_decrypt_balance(EncryptionKey, encrypted_balance, iv)

(* ------------------------------- store -------------------------------- *)
VARIABLES
  now,            \* wall clock, minutes
  wallets,        \* committed rows of table wallets for the subject
  bets,           \* committed rows of table bets
  transactions,   \* committed rows of table transactions
  wallet_lock,    \* process whose uncommitted UPDATE holds the wallet row lock, 0 if none
  gambling_limits,\* Option of the subject's gambling_limits row
  pc, op, req, loc, tx, result,
  scan,           \* per placement: state of its detached detect_fraud_patterns task
  alerts,         \* fraud alerts logged so far
  initial_wallets,\* the wallet rows before any modelled operation (never written)
  users            \* the subjects that have a users row

(* --------------------------- rate limiters ---------------------------- *)
VARIABLES
  rl_now,          \* the limiters' clock, seconds
  direct_limiter,  \* state cell of the one bucket of a RateLimiter, 0 while unset
  direct_history,  \* calls of RateLimiter::check so far: time and outcome
  keyed_limiters,  \* per keyed limiter, its DashMap: key -> Option of a bucket
  created,         \* per keyed limiter and key: buckets constructed for it so far
  history,         \* per keyed limiter and key: calls of check so far
  rpc, rcall       \* per caller: position in check, and the call it is making

rateVars == <<rl_now, direct_limiter, direct_history, keyed_limiters, created, history,
              rpc, rcall>>

(* ------------------------- cipher, on its own ------------------------- *)
VARIABLES
  encryption_key,  \* the key of the CryptoService under test
  amount_in,       \* the amount handed to encrypt_balance
  sealed,          \* Option: what encrypt_balance returned
  presented,       \* Option: the (encrypted_balance, iv) handed to decrypt_balance
  tampering,       \* what was done to the pair between the two calls
  opened,          \* what decrypt_balance returned
  cpc              \* position of the cipher exercise

cipherVars == <<encryption_key, amount_in, sealed, presented, tampering, opened, cpc>>

(* ------------------------- sessions and tokens ------------------------ *)
VARIABLES
  auth_now,        \* Utc::now() of the AuthService, minutes
  active_sessions, \* the DashMap: session id -> Option of a SessionInfo
  issued,          \* the tokens handed out so far
  apc,             \* position of the caller inside validate_token
  atoken,          \* the token that caller presented
  aresult,         \* Option: what validate_token returned
  last_write       \* per session id, the method that last inserted or removed the entry

authVars == <<auth_now, active_sessions, issued, apc, atoken, aresult, last_write>>

storeVars == <<now, wallets, bets, transactions, wallet_lock, gambling_limits,
               pc, op, req, loc, tx, result, scan, alerts, initial_wallets, users>>

vars == <<storeVars, rateVars, cipherVars, authVars>>

\* table events: never written by the betting core
Events ==
  (1 :> [status |-> "UPCOMING", event_date |-> Day,
         moneyline_home |-> Some(205), moneyline_away |-> Some(180),
         spread_home_odds |-> NoneV, spread_away_odds |-> NoneV,
         over_odds |-> Some(190), under_odds |-> NoneV])
  @@
  (2 :> [status |-> "LIVE", event_date |-> 2 * Day,
         moneyline_home |-> Some(205), moneyline_away |-> Some(180),
         spread_home_odds |-> NoneV, spread_away_odds |-> NoneV,
         over_odds |-> Some(190), under_odds |-> NoneV])

\* str::to_uppercase on the strings the requests use
to_uppercase(s) ==
  CASE s = "moneyline" -> "MONEYLINE"
    [] s = "home" -> "HOME"
    [] OTHER -> s

\* the PlaceBetRequest bodies callers send
BetRequests ==
  { r \in [event_id : {1, 2, 3}, bet_type : {"moneyline"}, selection : {"home", "DRAW"},
            odds : {199, 200, 210, 211}, amount : {99, 100, 1000}] :
      Cardinality({f \in {"e", "s", "o", "a"} :
                     \/ f = "e" /\ r.event_id # 1
                     \/ f = "s" /\ r.selection # "home"
                     \/ f = "o" /\ r.odds # 200
                     \/ f = "a" /\ r.amount # 1000}) <= 1 }

\* the request every check lets through
PlainBet == [event_id |-> 1, bet_type |-> "moneyline", selection |-> "home",
             odds |-> 200, amount |-> 1000]

\* amounts of the DepositRequest / WithdrawRequest bodies that pass validate()
TransferAmounts == {1000}

InitialBalances == {1000, 2000}

LimitProfiles ==
  { NoneV,
    Some([daily_bet_limit |-> Some(1999), weekly_bet_limit |-> NoneV,
          monthly_bet_limit |-> NoneV, max_single_bet |-> NoneV,
          self_exclusion_until |-> NoneV]),
    Some([daily_bet_limit |-> NoneV, weekly_bet_limit |-> Some(5000),
          monthly_bet_limit |-> Some(2000), max_single_bet |-> Some(1000),
          self_exclusion_until |-> Some(Day)]) }

NoReq == [event_id |-> 0, bet_type |-> "", selection |-> "", odds |-> 0, amount |-> 0]
NoLoc == [tx_start |-> 0, wallet_id |-> 0, current_balance |-> 0, new_balance |-> 0,
          bet_id |-> 0, window |-> 0, checked_at |-> 0, store_fault |-> FALSE]
NoTx  == [bets |-> <<>>, transactions |-> <<>>, wallet_insert |-> <<>>, wallet_update |-> <<>>]

\* Uuid::new_v4 / gen_random_uuid: one fresh id per operation and table
NewBetId(p) == p
NewWalletId(p) == 100 + p

StoreInit ==
  /\ now = 0
  /\ wallets \in {<<>>} \cup
       { <<[id |-> 100] @@ encrypt_balance(b, 0)>> : b \in InitialBalances }
  /\ bets = <<>>
  /\ transactions = <<>>
  /\ wallet_lock = 0
  /\ gambling_limits \in LimitProfiles
  /\ pc = [p \in Procs |-> "idle"]
  /\ op = [p \in Procs |-> "none"]
  /\ req = [p \in Procs |-> NoReq]
  /\ loc = [p \in Procs |-> NoLoc]
  /\ tx = [p \in Procs |-> NoTx]
  /\ result = [p \in Procs |-> "none"]
  /\ scan = [p \in Procs |-> "none"]
  /\ alerts = {}
  /\ initial_wallets = wallets
  /\ users = {"A"}

(* ---------------------- transactions on the store --------------------- *)
\* dropping the sqlx Transaction on an early return: ROLLBACK
AbortWith(p, err, store_fault) ==
  /\ pc' = [pc EXCEPT ![p] = "done"]
  /\ result' = [result EXCEPT ![p] = err]
  /\ tx' = [tx EXCEPT ![p] = NoTx]
  /\ wallet_lock' = IF wallet_lock = p THEN 0 ELSE wallet_lock
  /\ loc' = [loc EXCEPT ![p].checked_at = IF pc[p] = "fetch_event" THEN now ELSE @,
                         ![p].store_fault = store_fault]
  /\ UNCHANGED <<now, wallets, bets, transactions, gambling_limits, op, req, scan, alerts,
                 initial_wallets, users, rateVars, cipherVars, authVars>>

\* an early return with the error the code itself produced
Abort(p, err) == AbortWith(p, err, FALSE)

\* the wallet rows as they are once p's pending INSERT and UPDATE are applied
WalletsAfter(p) ==
  LET u == tx[p].wallet_update
      set(row) == [row EXCEPT !.encrypted_balance = Unwrap(u).encrypted_balance,
                              !.encryption_iv = Unwrap(u).encryption_iv]
  IN  [i \in DOMAIN wallets |->
         IF IsSome(u) /\ i <= Unwrap(u).rows THEN set(wallets[i]) ELSE wallets[i]]
      \o [i \in DOMAIN tx[p].wallet_insert |->
            IF IsSome(u) THEN set(tx[p].wallet_insert[i]) ELSE tx[p].wallet_insert[i]]

\* tx.commit(): every pending write becomes visible at once, the row lock is released
CommitTx(p) ==
  /\ wallets' = WalletsAfter(p)
  /\ bets' = bets \o tx[p].bets
  /\ transactions' = transactions \o tx[p].transactions
  /\ tx' = [tx EXCEPT ![p] = NoTx]
  /\ wallet_lock' = IF wallet_lock = p THEN 0 ELSE wallet_lock

\* UPDATE wallets SET ... WHERE user_id = $3, inside p's transaction: it waits
\* while another transaction's uncommitted UPDATE holds the rows
WalletRowsFree(p) == wallets = <<>> \/ wallet_lock \in {0, p}

UpdateWallets(p, new_balance, n) ==
  /\ tx' = [tx EXCEPT ![p].wallet_update =
              Some([rows |-> Len(wallets)] @@ encrypt_balance(new_balance, n))]
  /\ wallet_lock' = IF wallets = <<>> THEN wallet_lock ELSE p

(* ----------------------------- place_bet ------------------------------ *)
\* mutant: the start-time comparison lets an event starting right now through
validate_event_strict_less(event) ==
  IF event.status # "UPCOMING" THEN "EventNotAvailable"
  ELSE IF event.event_date < now THEN "EventNotAvailable"
  ELSE "Ok"

validate_event(event) ==
  IF event.status # "UPCOMING" THEN "EventNotAvailable"
  ELSE IF event.event_date <= now THEN "EventNotAvailable"
  ELSE "Ok"

validate_bet_amount(amount) ==
  IF amount < MinBet THEN "InvalidBetAmount" ELSE "Ok"

\* Some(odds), or None where the function returns Err(InvalidBetAmount)
get_current_odds(event, bet_type, selection) ==
  LET bet_type_upper == to_uppercase(bet_type)
      selection_upper == to_uppercase(selection)
  IN  CASE bet_type_upper = "MONEYLINE" ->
             (CASE selection_upper = "HOME" -> event.moneyline_home
                [] selection_upper = "AWAY" -> event.moneyline_away
                [] OTHER -> NoneV)
        [] bet_type_upper = "SPREAD" ->
             (CASE selection_upper = "HOME" -> event.spread_home_odds
                [] selection_upper = "AWAY" -> event.spread_away_odds
                [] OTHER -> NoneV)
        [] bet_type_upper = "TOTAL" ->
             (CASE selection_upper = "OVER" -> event.over_odds
                [] selection_upper = "UNDER" -> event.under_odds
                [] OTHER -> NoneV)
        [] OTHER -> NoneV

Abs(x) == IF x < 0 THEN -x ELSE x

\* mutant: a difference equal to the tolerance is refused
verify_odds_strict(event, bet_request) ==
  LET current_odds == get_current_odds(event, bet_request.bet_type, bet_request.selection)
  IN  IF current_odds = NoneV THEN "InvalidBetAmount"
      ELSE IF Abs(bet_request.odds - Unwrap(current_odds)) >= MaxVariance THEN "OddsChanged"
      ELSE "Ok"

verify_odds(event, bet_request) ==
  LET current_odds == get_current_odds(event, bet_request.bet_type, bet_request.selection)
  IN  IF current_odds = NoneV THEN "InvalidBetAmount"
      ELSE IF Abs(bet_request.odds - Unwrap(current_odds)) > MaxVariance THEN "OddsChanged"
      ELSE "Ok"

calculate_potential_win(amount, odds) == amount * odds

\* SELECT COALESCE(SUM(amount), 0) FROM bets WHERE created_at > NOW() - days AND
\* status != 'CANCELLED'; NOW() is the start time of the asking transaction
get_period_total(rows, tx_start, days) ==
  SumSeq([i \in DOMAIN rows |->
            IF rows[i].created_at > tx_start - days * Day /\ rows[i].status # "CANCELLED"
            THEN rows[i].amount ELSE 0])

WindowDays(w) == CASE w = 1 -> 1 [] w = 2 -> 7 [] OTHER -> 30

WindowCap(limits, w) ==
  CASE w = 1 -> limits.daily_bet_limit
    [] w = 2 -> limits.weekly_bet_limit
    [] OTHER -> limits.monthly_bet_limit

\* the next window from w on whose cap is set, 4 when there is none
NextWindow(limits, w) ==
  IF \E v \in w..3 : IsSome(WindowCap(limits, v))
  THEN CHOOSE v \in w..3 : IsSome(WindowCap(limits, v)) /\
                            \A u \in w..(v - 1) : ~IsSome(WindowCap(limits, u))
  ELSE 4

\* pool.begin()
place_bet_begin(p, r) ==
  /\ pc[p] = "idle"
  /\ pc' = [pc EXCEPT ![p] = "fetch_event"]
  /\ op' = [op EXCEPT ![p] = "place_bet"]
  /\ req' = [req EXCEPT ![p] = r]
  /\ loc' = [loc EXCEPT ![p].tx_start = now]
  /\ UNCHANGED <<now, wallets, bets, transactions, wallet_lock, gambling_limits,
                 tx, result, scan, alerts, initial_wallets, users, rateVars, cipherVars, authVars>>

\* mutant: the stake floor is checked before the event's availability
place_bet_fetch_event_amount_first(p) ==
  /\ pc[p] = "fetch_event"
  /\ IF req[p].event_id \notin DOMAIN Events THEN Abort(p, "EventNotFound")
     ELSE IF validate_bet_amount(req[p].amount) # "Ok"
       THEN Abort(p, validate_bet_amount(req[p].amount))
     ELSE IF validate_event(Events[req[p].event_id]) # "Ok"
       THEN Abort(p, validate_event(Events[req[p].event_id]))
     ELSE /\ pc' = [pc EXCEPT ![p] = "get_wallet"]
          /\ loc' = [loc EXCEPT ![p].checked_at = now]
          /\ UNCHANGED <<now, wallets, bets, transactions, wallet_lock, gambling_limits,
                         op, req, tx, result, scan, alerts, initial_wallets, users, rateVars, cipherVars, authVars>>

\* steps 1 and 2: fetch_event, validate_event, validate_bet_amount
place_bet_fetch_event(p) ==
  /\ pc[p] = "fetch_event"
  /\ IF req[p].event_id \notin DOMAIN Events THEN Abort(p, "EventNotFound")
     ELSE IF validate_event(Events[req[p].event_id]) # "Ok"
       THEN Abort(p, validate_event(Events[req[p].event_id]))
     ELSE IF validate_bet_amount(req[p].amount) # "Ok"
       THEN Abort(p, validate_bet_amount(req[p].amount))
     ELSE /\ pc' = [pc EXCEPT ![p] = "get_wallet"]
          /\ loc' = [loc EXCEPT ![p].checked_at = now]
          /\ UNCHANGED <<now, wallets, bets, transactions, wallet_lock, gambling_limits,
                         op, req, tx, result, scan, alerts, initial_wallets, users, rateVars, cipherVars, authVars>>

\* the row fetch_one returned is decrypted and compared with the stake
DecryptAndCheckFunds(p) ==
  \E i \in DOMAIN wallets :
    LET balance == decrypt_balance(wallets[i].encrypted_balance, wallets[i].encryption_iv)
    IN  IF balance = NoneV THEN Abort(p, "Encryption")
        ELSE IF Unwrap(balance) < req[p].amount THEN Abort(p, "InsufficientFunds")
        ELSE /\ loc' = [loc EXCEPT ![p].wallet_id = wallets[i].id,
                                    ![p].current_balance = Unwrap(balance)]
             /\ pc' = [pc EXCEPT ![p] = "limits"]
             /\ UNCHANGED <<now, wallets, bets, transactions, wallet_lock,
                            gambling_limits, op, req, tx, result, scan, alerts,
                            initial_wallets, users, rateVars, cipherVars, authVars>>

\* mutant: a missing wallet is created on the pool, as get_balance does, before
\* the funds check rejects the stake
place_bet_get_wallet_balance_creating(p) ==
  /\ pc[p] = "get_wallet"
  /\ IF wallets = <<>>
     THEN /\ \E n \in Nonces :
               wallets' = <<[id |-> NewWalletId(p)] @@ encrypt_balance(0, n)>>
          /\ pc' = [pc EXCEPT ![p] = "done"]
          /\ result' = [result EXCEPT ![p] = "InsufficientFunds"]
          /\ UNCHANGED <<now, bets, transactions, wallet_lock, gambling_limits, op, req,
                         loc, tx, scan, alerts, initial_wallets, users, rateVars, cipherVars, authVars>>
     ELSE DecryptAndCheckFunds(p)

\* steps 3 and 4: get_wallet_balance and the funds check
place_bet_get_wallet_balance(p) ==
  /\ pc[p] = "get_wallet"
  /\ IF wallets = <<>> THEN Abort(p, "Database") ELSE DecryptAndCheckFunds(p)

\* mutant: the single-bet cap is looked at before the self-exclusion
place_bet_check_gambling_limits_cap_first(p) ==
  /\ pc[p] = "limits"
  /\ IF gambling_limits = NoneV
     THEN /\ pc' = [pc EXCEPT ![p] = "create_bet"]
          /\ UNCHANGED <<now, wallets, bets, transactions, wallet_lock, gambling_limits,
                         op, req, loc, tx, result, scan, alerts, initial_wallets, users, rateVars, cipherVars, authVars>>
     ELSE LET limits == Unwrap(gambling_limits)
          IN  IF IsSome(limits.max_single_bet) /\ req[p].amount > Unwrap(limits.max_single_bet)
                THEN Abort(p, "BetLimitExceeded")
              ELSE IF IsSome(limits.self_exclusion_until) /\ Unwrap(limits.self_exclusion_until) > now
                THEN Abort(p, "AccountLocked")
              ELSE /\ pc' = [pc EXCEPT ![p] =
                               IF NextWindow(limits, 1) = 4 THEN "create_bet" ELSE "period"]
                   /\ loc' = [loc EXCEPT ![p].window = NextWindow(limits, 1)]
                   /\ UNCHANGED <<now, wallets, bets, transactions, wallet_lock,
                                  gambling_limits, op, req, tx, result, scan, alerts, initial_wallets, users, rateVars, cipherVars, authVars>>

\* mutant: the limits row is read with fetch_one, so a subject without limits
\* gets the store's RowNotFound error
place_bet_check_gambling_limits_requiring_row(p) ==
  /\ pc[p] = "limits"
  /\ IF gambling_limits = NoneV THEN Abort(p, "Database")
     ELSE LET limits == Unwrap(gambling_limits)
          IN  IF IsSome(limits.self_exclusion_until) /\ Unwrap(limits.self_exclusion_until) > now
                THEN Abort(p, "AccountLocked")
              ELSE IF IsSome(limits.max_single_bet) /\ req[p].amount > Unwrap(limits.max_single_bet)
                THEN Abort(p, "BetLimitExceeded")
              ELSE /\ pc' = [pc EXCEPT ![p] =
                               IF NextWindow(limits, 1) = 4 THEN "create_bet" ELSE "period"]
                   /\ loc' = [loc EXCEPT ![p].window = NextWindow(limits, 1)]
                   /\ UNCHANGED <<now, wallets, bets, transactions, wallet_lock,
                                  gambling_limits, op, req, tx, result, scan, alerts,
                                  initial_wallets, users, rateVars, cipherVars, authVars>>

\* step 5, first part: the limits row, self-exclusion, the single-bet cap
place_bet_check_gambling_limits(p) ==
  /\ pc[p] = "limits"
  /\ IF gambling_limits = NoneV
     THEN /\ pc' = [pc EXCEPT ![p] = "create_bet"]
          /\ UNCHANGED <<now, wallets, bets, transactions, wallet_lock, gambling_limits,
                         op, req, loc, tx, result, scan, alerts, initial_wallets, users, rateVars, cipherVars, authVars>>
     ELSE LET limits == Unwrap(gambling_limits)
          IN  IF IsSome(limits.self_exclusion_until) /\ Unwrap(limits.self_exclusion_until) > now
                THEN Abort(p, "AccountLocked")
              ELSE IF IsSome(limits.max_single_bet) /\ req[p].amount > Unwrap(limits.max_single_bet)
                THEN Abort(p, "BetLimitExceeded")
              ELSE /\ pc' = [pc EXCEPT ![p] =
                               IF NextWindow(limits, 1) = 4 THEN "create_bet" ELSE "period"]
                   /\ loc' = [loc EXCEPT ![p].window = NextWindow(limits, 1)]
                   /\ UNCHANGED <<now, wallets, bets, transactions, wallet_lock,
                                  gambling_limits, op, req, tx, result, scan, alerts, initial_wallets, users, rateVars, cipherVars, authVars>>

\* mutant: a total that reaches the cap is refused
place_bet_check_period_at_cap(p) ==
  /\ pc[p] = "period"
  /\ LET limits == Unwrap(gambling_limits)
         w == loc[p].window
         total == get_period_total(bets \o tx[p].bets, loc[p].tx_start, WindowDays(w))
     IN  IF total + req[p].amount >= Unwrap(WindowCap(limits, w))
           THEN Abort(p, "BetLimitExceeded")
         ELSE /\ pc' = [pc EXCEPT ![p] =
                          IF NextWindow(limits, w + 1) = 4 THEN "create_bet" ELSE "period"]
              /\ loc' = [loc EXCEPT ![p].window = NextWindow(limits, w + 1)]
              /\ UNCHANGED <<now, wallets, bets, transactions, wallet_lock,
                             gambling_limits, op, req, tx, result, scan, alerts,
                             initial_wallets, users, rateVars, cipherVars, authVars>>

\* step 5, second part: one get_period_total query and its cap
place_bet_check_period(p) ==
  /\ pc[p] = "period"
  /\ LET limits == Unwrap(gambling_limits)
         w == loc[p].window
         total == get_period_total(bets \o tx[p].bets, loc[p].tx_start, WindowDays(w))
     IN  IF total + req[p].amount > Unwrap(WindowCap(limits, w))
           THEN Abort(p, "BetLimitExceeded")
         ELSE /\ pc' = [pc EXCEPT ![p] =
                          IF NextWindow(limits, w + 1) = 4 THEN "create_bet" ELSE "period"]
              /\ loc' = [loc EXCEPT ![p].window = NextWindow(limits, w + 1)]
              /\ UNCHANGED <<now, wallets, bets, transactions, wallet_lock,
                             gambling_limits, op, req, tx, result, scan, alerts, initial_wallets, users, rateVars, cipherVars, authVars>>

\* the row INSERT INTO bets ... RETURNING * writes
BetRow(p) ==
  [id |-> NewBetId(p), event_id |-> req[p].event_id,
   bet_type |-> to_uppercase(req[p].bet_type),
   selection |-> to_uppercase(req[p].selection),
   odds |-> req[p].odds, amount |-> req[p].amount,
   potential_win |-> calculate_potential_win(req[p].amount, req[p].odds),
   status |-> "PENDING", created_at |-> loc[p].tx_start]

\* mutant: the INSERT runs on the pool instead of the transaction, so the bet
\* row is committed on its own
place_bet_create_bet_record_on_pool(p) ==
  /\ pc[p] = "create_bet"
  /\ IF verify_odds(Events[req[p].event_id], req[p]) # "Ok"
       THEN Abort(p, verify_odds(Events[req[p].event_id], req[p]))
     ELSE /\ bets' = Append(bets, BetRow(p))
          /\ loc' = [loc EXCEPT ![p].bet_id = NewBetId(p)]
          /\ pc' = [pc EXCEPT ![p] = "update_wallet"]
          /\ UNCHANGED <<now, wallets, transactions, wallet_lock, gambling_limits,
                         op, req, tx, result, scan, alerts, initial_wallets, users, rateVars, cipherVars, authVars>>

\* steps 6 to 8: verify_odds, calculate_potential_win, create_bet_record
place_bet_create_bet_record(p) ==
  /\ pc[p] = "create_bet"
  /\ IF verify_odds(Events[req[p].event_id], req[p]) # "Ok"
       THEN Abort(p, verify_odds(Events[req[p].event_id], req[p]))
     ELSE /\ tx' = [tx EXCEPT ![p].bets = Append(@, BetRow(p))]
          /\ loc' = [loc EXCEPT ![p].bet_id = NewBetId(p)]
          /\ pc' = [pc EXCEPT ![p] = "update_wallet"]
          /\ UNCHANGED <<now, wallets, bets, transactions, wallet_lock, gambling_limits,
                         op, req, result, scan, alerts, initial_wallets, users, rateVars, cipherVars, authVars>>

\* step 9: new_balance and update_wallet_balance
place_bet_update_wallet_balance(p) ==
  /\ pc[p] = "update_wallet" /\ op[p] = "place_bet"
  /\ WalletRowsFree(p)
  /\ \E n \in Nonces :
       UpdateWallets(p, loc[p].current_balance - req[p].amount, n)
  /\ loc' = [loc EXCEPT ![p].new_balance = loc[p].current_balance - req[p].amount]
  /\ pc' = [pc EXCEPT ![p] = "audit"]
  /\ UNCHANGED <<now, wallets, bets, transactions, gambling_limits, op, req, result,
                 scan, alerts, initial_wallets, users, rateVars, cipherVars, authVars>>

\* the row INSERT INTO transactions ... 'BET_PLACED' writes from its arguments
AuditRow(p, wallet_id, amount, balance_before, balance_after, bet_id) ==
  [transaction_type |-> "BET_PLACED", amount |-> amount, wallet_id |-> wallet_id,
   balance_before |-> balance_before, balance_after |-> balance_after,
   bet_id |-> bet_id, created_at |-> loc[p].tx_start]

\* mutant: the two balance arguments are passed in the wrong order
place_bet_create_transaction_record_swapped(p) ==
  /\ pc[p] = "audit" /\ op[p] = "place_bet"
  /\ tx' = [tx EXCEPT ![p].transactions = Append(@,
              AuditRow(p, loc[p].wallet_id, req[p].amount, loc[p].new_balance,
                       loc[p].current_balance, loc[p].bet_id))]
  /\ pc' = [pc EXCEPT ![p] = "commit"]
  /\ UNCHANGED <<now, wallets, bets, transactions, wallet_lock, gambling_limits,
                 op, req, loc, result, scan, alerts, initial_wallets, users, rateVars, cipherVars, authVars>>

\* step 10: create_transaction_record
place_bet_create_transaction_record(p) ==
  /\ pc[p] = "audit" /\ op[p] = "place_bet"
  /\ tx' = [tx EXCEPT ![p].transactions = Append(@,
              AuditRow(p, loc[p].wallet_id, req[p].amount, loc[p].current_balance,
                       loc[p].new_balance, loc[p].bet_id))]
  /\ pc' = [pc EXCEPT ![p] = "commit"]
  /\ UNCHANGED <<now, wallets, bets, transactions, wallet_lock, gambling_limits,
                 op, req, loc, result, scan, alerts, initial_wallets, users, rateVars, cipherVars, authVars>>

\* steps 11 and 12: commit, spawn detect_fraud_patterns, return Ok(bet)
\* mutant: the bet and the audit row become visible, the wallet update does not
place_bet_commit_without_wallet(p) ==
  /\ pc[p] = "commit" /\ op[p] = "place_bet"
  /\ bets' = bets \o tx[p].bets
  /\ transactions' = transactions \o tx[p].transactions
  /\ tx' = [tx EXCEPT ![p] = NoTx]
  /\ wallet_lock' = IF wallet_lock = p THEN 0 ELSE wallet_lock
  /\ scan' = [scan EXCEPT ![p] = "velocity"]
  /\ result' = [result EXCEPT ![p] = "Ok"]
  /\ pc' = [pc EXCEPT ![p] = "done"]
  /\ UNCHANGED <<now, wallets, gambling_limits, op, req, loc, alerts, initial_wallets, users,
                 rateVars, cipherVars, authVars>>

\* step 11: tx.commit(), then the scan is spawned and Ok(bet) returned
place_bet_commit(p) ==
  /\ pc[p] = "commit" /\ op[p] = "place_bet"
  /\ CommitTx(p)
  /\ scan' = [scan EXCEPT ![p] = "velocity"]
  /\ result' = [result EXCEPT ![p] = "Ok"]
  /\ pc' = [pc EXCEPT ![p] = "done"]
  /\ UNCHANGED <<now, gambling_limits, op, req, loc, alerts, initial_wallets, users, rateVars, cipherVars, authVars>>

\* any statement of an open transaction, or its COMMIT, fails: AppError::Database
StoreFailure(p) ==
  /\ pc[p] \notin {"idle", "done"}
  /\ AbortWith(p, "Database", TRUE)

(* ------------------------- deposit and withdraw ----------------------- *)
TransferReq(a) == [NoReq EXCEPT !.amount = a]

\* SELECT ... FROM wallets WHERE user_id = $1, creating a 0.00 wallet inside the
\* transaction when there is no row; the balance read is left in loc
SelectOrCreateWallet(p) ==
  IF wallets = <<>>
  THEN \E n \in Nonces :
         /\ tx' = [tx EXCEPT ![p].wallet_insert =
                     Append(@, [id |-> NewWalletId(p)] @@ encrypt_balance(0, n))]
         /\ loc' = [loc EXCEPT ![p].current_balance = 0]
         /\ pc' = [pc EXCEPT ![p] = "update_wallet"]
         /\ UNCHANGED <<now, wallets, bets, transactions, wallet_lock, gambling_limits,
                        op, req, result, scan, alerts, initial_wallets, users, rateVars, cipherVars, authVars>>
  ELSE \E i \in DOMAIN wallets :
         LET balance == decrypt_balance(wallets[i].encrypted_balance, wallets[i].encryption_iv)
         IN  IF balance = NoneV THEN Abort(p, "Encryption")
             ELSE IF op[p] = "withdraw" /\ Unwrap(balance) < req[p].amount
               THEN Abort(p, "InsufficientFunds")
             ELSE /\ loc' = [loc EXCEPT ![p].current_balance = Unwrap(balance)]
                  /\ pc' = [pc EXCEPT ![p] = "update_wallet"]
                  /\ UNCHANGED <<now, wallets, bets, transactions, wallet_lock,
                                 gambling_limits, op, req, tx, result, scan, alerts, initial_wallets, users, rateVars, cipherVars, authVars>>

LedgerRow(p, kind) ==
  [transaction_type |-> kind, amount |-> req[p].amount, wallet_id |-> 0,
   balance_before |-> 0, balance_after |-> 0, bet_id |-> 0, created_at |-> loc[p].tx_start]

deposit_begin(p, a) ==
  /\ pc[p] = "idle"
  /\ a >= MinTransfer /\ a <= MaxTransfer
  /\ pc' = [pc EXCEPT ![p] = "select_wallet"]
  /\ op' = [op EXCEPT ![p] = "deposit"]
  /\ req' = [req EXCEPT ![p] = TransferReq(a)]
  /\ loc' = [loc EXCEPT ![p].tx_start = now]
  /\ UNCHANGED <<now, wallets, bets, transactions, wallet_lock, gambling_limits,
                 tx, result, scan, alerts, initial_wallets, users, rateVars, cipherVars, authVars>>

deposit_select_wallet(p) ==
  /\ pc[p] = "select_wallet" /\ op[p] = "deposit"
  /\ SelectOrCreateWallet(p)

deposit_update_wallet(p) ==
  /\ pc[p] = "update_wallet" /\ op[p] = "deposit"
  /\ WalletRowsFree(p)
  /\ \E n \in Nonces : UpdateWallets(p, loc[p].current_balance + req[p].amount, n)
  /\ loc' = [loc EXCEPT ![p].new_balance = loc[p].current_balance + req[p].amount]
  /\ pc' = [pc EXCEPT ![p] = "insert_tx"]
  /\ UNCHANGED <<now, wallets, bets, transactions, gambling_limits, op, req, result,
                 scan, alerts, initial_wallets, users, rateVars, cipherVars, authVars>>

deposit_insert_transaction(p) ==
  /\ pc[p] = "insert_tx" /\ op[p] = "deposit"
  /\ tx' = [tx EXCEPT ![p].transactions = Append(@, LedgerRow(p, "deposit"))]
  /\ pc' = [pc EXCEPT ![p] = "commit"]
  /\ UNCHANGED <<now, wallets, bets, transactions, wallet_lock, gambling_limits,
                 op, req, loc, result, scan, alerts, initial_wallets, users, rateVars, cipherVars, authVars>>

deposit_commit(p) ==
  /\ pc[p] = "commit" /\ op[p] = "deposit"
  /\ CommitTx(p)
  /\ result' = [result EXCEPT ![p] = "Ok"]
  /\ pc' = [pc EXCEPT ![p] = "done"]
  /\ UNCHANGED <<now, gambling_limits, op, req, loc, scan, alerts, initial_wallets, users, rateVars, cipherVars, authVars>>

withdraw_begin(p, a) ==
  /\ pc[p] = "idle"
  /\ a >= MinTransfer /\ a <= MaxTransfer
  /\ pc' = [pc EXCEPT ![p] = "select_wallet"]
  /\ op' = [op EXCEPT ![p] = "withdraw"]
  /\ req' = [req EXCEPT ![p] = TransferReq(a)]
  /\ loc' = [loc EXCEPT ![p].tx_start = now]
  /\ UNCHANGED <<now, wallets, bets, transactions, wallet_lock, gambling_limits,
                 tx, result, scan, alerts, initial_wallets, users, rateVars, cipherVars, authVars>>

withdraw_select_wallet(p) ==
  /\ pc[p] = "select_wallet" /\ op[p] = "withdraw"
  /\ SelectOrCreateWallet(p)

withdraw_update_wallet(p) ==
  /\ pc[p] = "update_wallet" /\ op[p] = "withdraw"
  /\ WalletRowsFree(p)
  /\ \E n \in Nonces : UpdateWallets(p, loc[p].current_balance - req[p].amount, n)
  /\ loc' = [loc EXCEPT ![p].new_balance = loc[p].current_balance - req[p].amount]
  /\ pc' = [pc EXCEPT ![p] = "insert_tx"]
  /\ UNCHANGED <<now, wallets, bets, transactions, gambling_limits, op, req, result,
                 scan, alerts, initial_wallets, users, rateVars, cipherVars, authVars>>

withdraw_insert_transaction(p) ==
  /\ pc[p] = "insert_tx" /\ op[p] = "withdraw"
  /\ tx' = [tx EXCEPT ![p].transactions = Append(@, LedgerRow(p, "withdrawal"))]
  /\ pc' = [pc EXCEPT ![p] = "commit"]
  /\ UNCHANGED <<now, wallets, bets, transactions, wallet_lock, gambling_limits,
                 op, req, loc, result, scan, alerts, initial_wallets, users, rateVars, cipherVars, authVars>>

withdraw_commit(p) ==
  /\ pc[p] = "commit" /\ op[p] = "withdraw"
  /\ CommitTx(p)
  /\ result' = [result EXCEPT ![p] = "Ok"]
  /\ pc' = [pc EXCEPT ![p] = "done"]
  /\ UNCHANGED <<now, gambling_limits, op, req, loc, scan, alerts, initial_wallets, users, rateVars, cipherVars, authVars>>

(* ------------------------ detect_fraud_patterns ----------------------- *)
RecentCount(rows, t, window) ==
  Cardinality({i \in DOMAIN rows : rows[i].created_at > t - window})

RecentSum(rows, t, window) ==
  SumSeq([i \in DOMAIN rows |-> IF rows[i].created_at > t - window THEN rows[i].amount ELSE 0])

\* mutant: a failed COUNT(*) query is reported as the placement's error
detect_fraud_velocity_surfacing(p, ok) ==
  /\ scan[p] = "velocity"
  /\ alerts' = IF ok /\ RecentCount(bets, now, TenMinutes) > VelocityThreshold
               THEN alerts \cup {<<p, "velocity">>} ELSE alerts
  /\ result' = IF ok THEN result ELSE [result EXCEPT ![p] = "Database"]
  /\ scan' = [scan EXCEPT ![p] = "magnitude"]
  /\ UNCHANGED <<now, wallets, bets, transactions, wallet_lock, gambling_limits,
                 pc, op, req, loc, tx, initial_wallets, users, rateVars, cipherVars, authVars>>

\* mutant: the alert is raised from the threshold on, as the comment "10+" reads
detect_fraud_velocity_at_threshold(p, ok) ==
  /\ scan[p] = "velocity"
  /\ LET recent_count == IF ok THEN RecentCount(bets, now, TenMinutes) ELSE 0
     IN  alerts' = IF recent_count >= VelocityThreshold
                   THEN alerts \cup {<<p, "velocity">>} ELSE alerts
  /\ scan' = [scan EXCEPT ![p] = "magnitude"]
  /\ UNCHANGED <<now, wallets, bets, transactions, wallet_lock, gambling_limits,
                 pc, op, req, loc, tx, result, initial_wallets, users, rateVars, cipherVars, authVars>>

\* the COUNT(*) query and the rapid-betting alert; a failed query counts as 0
detect_fraud_velocity(p, ok) ==
  /\ scan[p] = "velocity"
  /\ LET recent_count == IF ok THEN RecentCount(bets, now, TenMinutes) ELSE 0
     IN  alerts' = IF recent_count > VelocityThreshold
                   THEN alerts \cup {<<p, "velocity">>} ELSE alerts
  /\ scan' = [scan EXCEPT ![p] = "magnitude"]
  /\ UNCHANGED <<now, wallets, bets, transactions, wallet_lock, gambling_limits,
                 pc, op, req, loc, tx, result, initial_wallets, users, rateVars, cipherVars, authVars>>

\* the AVG(amount) query and the large-bet alert: amount > 5 * sum / count,
\* no alert when the query fails or the average is NULL
detect_fraud_magnitude(p, ok) ==
  /\ scan[p] = "magnitude"
  /\ LET n == RecentCount(bets, now, 30 * Day)
         total == RecentSum(bets, now, 30 * Day)
     IN  alerts' = IF ok /\ n > 0 /\ req[p].amount * n > MagnitudeFactor * total
                   THEN alerts \cup {<<p, "magnitude">>} ELSE alerts
  /\ scan' = [scan EXCEPT ![p] = "done"]
  /\ UNCHANGED <<now, wallets, bets, transactions, wallet_lock, gambling_limits,
                 pc, op, req, loc, tx, result, initial_wallets, users, rateVars, cipherVars, authVars>>

(* ------------------------------- clock -------------------------------- *)
Tick ==
  /\ now < MaxTicks * Day
  /\ now' = now + Day
  /\ UNCHANGED <<wallets, bets, transactions, wallet_lock, gambling_limits,
                 pc, op, req, loc, tx, result, scan, alerts, initial_wallets, users, rateVars, cipherVars, authVars>>

(* --------------------------- rate limiters ---------------------------- *)
Max(a, b) == IF a > b THEN a ELSE b
Min(a, b) == IF a < b THEN a ELSE b

\* mutant: the quota is built without allow_burst
QuotaWithoutBurst(max_requests, window_seconds) ==
  [replenish_1_per |-> window_seconds, max_burst |-> 1]

\* Quota::with_period(window).allow_burst(max_requests)
Quota(max_requests, window_seconds) ==
  [replenish_1_per |-> window_seconds, max_burst |-> max_requests]

\* governor's GCRA on one state cell: t0 is the time since the limiter was
\* built, cell the stored theoretical arrival time (0: never written)
GcraCheck(quota, cell, t0) ==
  LET t   == quota.replenish_1_per
      tau == quota.replenish_1_per * quota.max_burst
      tat == IF cell = 0 THEN t0 + t ELSE cell
      earliest_time == Max(tat - tau, 0)
  IN  IF t0 < earliest_time THEN [ok |-> FALSE, cell |-> cell]
      ELSE [ok |-> TRUE, cell |-> Max(tat, t0) + t]

KeyedLimiters == {"bet_limiter", "deposit_limiter"}
Keys == {"A", "B"}

\* RateLimiters::new
LimiterQuota(l) ==
  IF l = "bet_limiter" THEN Quota(bet_rate_limit_per_minute, BetWindow)
  ELSE Quota(DepositMax, DepositWindow)

RateStep == BetWindow \div 2

ChecksMade ==
  Len(direct_history)
  + SumSeq([i \in 1..2 |->
      LET l == IF i = 1 THEN "bet_limiter" ELSE "deposit_limiter"
      IN  Len(history[l]["A"]) + Len(history[l]["B"])])
  + Cardinality({p \in Callers : rpc[p] # "idle"})

RateStart ==
  /\ rl_now = 0
  /\ direct_limiter = 0
  /\ direct_history = <<>>
  /\ keyed_limiters = [l \in KeyedLimiters |-> [k \in Keys |-> NoneV]]
  /\ created = [l \in KeyedLimiters |-> [k \in Keys |-> 0]]
  /\ history = [l \in KeyedLimiters |-> [k \in Keys |-> <<>>]]
  /\ rpc = [p \in Callers |-> "idle"]
  /\ rcall = [p \in Callers |-> [limiter |-> "", key |-> "", slot |-> "", vacant |-> FALSE]]

\* RateLimiter::check
RateLimiter_check ==
  /\ ChecksMade < MaxChecks
  /\ LET r == GcraCheck(Quota(DirectMax, DirectWindow), direct_limiter, rl_now)
     IN  /\ direct_limiter' = r.cell
         /\ direct_history' = Append(direct_history, [at |-> rl_now, ok |-> r.ok])
  /\ UNCHANGED <<rl_now, keyed_limiters, created, history, rpc, rcall, storeVars, cipherVars, authVars>>

\* mutant: every caller is looked up under one and the same key
MapKeyIgnoringCaller(k) == "A"

\* the key check() hands to the map: the user id or the IP address
MapKey(k) == k

\* a caller enters check(key) of a keyed limiter
UserRateLimiter_check_call(p, l, k) ==
  /\ rpc[p] = "idle"
  /\ ChecksMade < MaxChecks
  /\ rpc' = [rpc EXCEPT ![p] = "waiting"]
  /\ rcall' = [rcall EXCEPT ![p] = [limiter |-> l, key |-> k, slot |-> MapKey(k),
                                     vacant |-> FALSE]]
  /\ UNCHANGED <<rl_now, direct_limiter, direct_history, keyed_limiters, created, history,
                 storeVars, cipherVars, authVars>>

SameSlot(p, q) == rcall[p].limiter = rcall[q].limiter /\ rcall[p].slot = rcall[q].slot

\* mutant: the entry is taken without holding the shard
ShardNeverHeld(p) == TRUE

\* DashMap::entry takes the shard's write lock, held until the returned
\* reference is dropped at the end of check()
ShardFree(p) == \A q \in Callers \ {p} : ~(rpc[q] = "entry" /\ SameSlot(p, q))

\* user_limiters.entry(key): the lookup under the lock
UserRateLimiter_check_entry(p) ==
  /\ rpc[p] = "waiting"
  /\ ShardFree(p)
  /\ rpc' = [rpc EXCEPT ![p] = "entry"]
  /\ rcall' = [rcall EXCEPT ![p].vacant =
                 (keyed_limiters[rcall[p].limiter][rcall[p].slot] = NoneV)]
  /\ UNCHANGED <<rl_now, direct_limiter, direct_history, keyed_limiters, created, history,
                 storeVars, cipherVars, authVars>>

\* or_insert_with builds the bucket of a vacant entry, limiter.check() consumes
\* from the bucket, the entry reference is dropped
UserRateLimiter_check_limiter(p) ==
  /\ rpc[p] = "entry"
  /\ LET l == rcall[p].limiter
         k == rcall[p].slot
         bucket == IF rcall[p].vacant THEN [start |-> rl_now, cell |-> 0]
                   ELSE Unwrap(keyed_limiters[l][k])
         r == GcraCheck(LimiterQuota(l), bucket.cell, rl_now - bucket.start)
     IN  /\ keyed_limiters' = [keyed_limiters EXCEPT ![l][k] =
                                 Some([start |-> bucket.start, cell |-> r.cell])]
         /\ created' = [created EXCEPT ![l][k] = IF rcall[p].vacant THEN @ + 1 ELSE @]
         /\ history' = [history EXCEPT ![l][rcall[p].key] = Append(@,
                          [at |-> rl_now, ok |-> r.ok,
                           raced |-> \E q \in Callers \ {p} :
                                       rpc[q] = "waiting" /\ rcall[q].limiter = l
                                       /\ rcall[q].key = rcall[p].key])]
  /\ rpc' = [rpc EXCEPT ![p] = "idle"]
  /\ UNCHANGED <<rl_now, direct_limiter, direct_history, rcall, storeVars, cipherVars, authVars>>

\* tracked_users_count / tracked_ips_count
tracked_users_count(l) == Cardinality({k \in Keys : IsSome(keyed_limiters[l][k])})

\* mutant: retain keeps no entry
UserRateLimiter_cleanup_inactive_dropping(l) ==
  /\ keyed_limiters' = [keyed_limiters EXCEPT ![l] =
                          [k \in Keys |-> IF FALSE THEN keyed_limiters[l][k] ELSE NoneV]]
  /\ UNCHANGED <<rl_now, direct_limiter, direct_history, created, history, rpc, rcall,
                 storeVars, cipherVars, authVars>>

\* cleanup_inactive: retain(|_, _| true) keeps every entry
UserRateLimiter_cleanup_inactive(l) ==
  /\ keyed_limiters' = [keyed_limiters EXCEPT ![l] =
                          [k \in Keys |-> IF TRUE THEN keyed_limiters[l][k] ELSE NoneV]]
  /\ UNCHANGED <<rl_now, direct_limiter, direct_history, created, history, rpc, rcall,
                 storeVars, cipherVars, authVars>>

\* IpRateLimiter::cleanup_inactive: a warning above 10000 entries, nothing else
IpRateLimiter_cleanup_inactive(l) ==
  /\ tracked_users_count(l) > MaxTracked => TRUE
  /\ UNCHANGED <<rl_now, direct_limiter, direct_history, keyed_limiters, created, history,
                 rpc, rcall, storeVars, cipherVars, authVars>>

\* RateLimiters::cleanup_all: cleanup_inactive of every keyed limiter in turn
RateLimiters_cleanup_all ==
  /\ keyed_limiters' = [l \in KeyedLimiters |->
                          [k \in Keys |-> IF TRUE THEN keyed_limiters[l][k] ELSE NoneV]]
  /\ UNCHANGED <<rl_now, direct_limiter, direct_history, created, history, rpc, rcall,
                 storeVars, cipherVars, authVars>>

RateTick ==
  /\ rl_now < MaxRateTicks * RateStep
  /\ rl_now' = rl_now + RateStep
  /\ UNCHANGED <<direct_limiter, direct_history, keyed_limiters, created, history,
                 rpc, rcall, storeVars, cipherVars, authVars>>

\* the store while only the limiters are exercised
StoreQuiet ==
  /\ now = 0
  /\ wallets = <<>>
  /\ bets = <<>>
  /\ transactions = <<>>
  /\ wallet_lock = 0
  /\ gambling_limits = NoneV
  /\ pc = [p \in Procs |-> "idle"]
  /\ op = [p \in Procs |-> "none"]
  /\ req = [p \in Procs |-> NoReq]
  /\ loc = [p \in Procs |-> NoLoc]
  /\ tx = [p \in Procs |-> NoTx]
  /\ result = [p \in Procs |-> "none"]
  /\ scan = [p \in Procs |-> "none"]
  /\ alerts = {}
  /\ initial_wallets = <<>>
  /\ users = {}

(* ------------------------- cipher, on its own ------------------------- *)
CipherKeys == {EncryptionKey, 200}
Amounts == {0, 7, 1000, 120050}
\* byte strings that are not the text of a decimal number
NonDecimalTexts == {<<>>, <<10>>, <<1, 10, 5>>}
Bits == 0..7

FlipBit(v, b) == IF (v \div 2^b) % 2 = 1 THEN v - 2^b ELSE v + 2^b

\* one bit of the byte at position i of an encoded byte string is inverted
FlipIn(text, i, b) == [text EXCEPT ![i] = Base64Encode(<<FlipBit(Unwrap(Base64Decode(<<@>>))[1], b)>>)[1]]

CipherQuiet ==
  /\ encryption_key = EncryptionKey
  /\ amount_in = 0
  /\ sealed = NoneV
  /\ presented = NoneV
  /\ tampering = "none"
  /\ opened = NoneV
  /\ cpc = "start"

(* ------------------------- sessions and tokens ------------------------ *)
AuthUsers ==
  { [id |-> 1, email |-> "one@example.com", role |-> Some("admin")],
    [id |-> 2, email |-> "two@example.com", role |-> NoneV] }

SessionIds == {"test_session_123", "test_session_456"}

\* HS256 over the claims: a keyed digest
Hmac(secret, claims) ==
  (secret * 31 + SumSeq(claims.sub) * 7 + claims.exp + claims.iat * 3
     + (IF claims.session_id = "test_session_123" THEN 1 ELSE 2)
     + (IF claims.role = "user" THEN 0 ELSE 5)) % 251

\* jsonwebtoken::encode
encode(claims, secret) == [claims |-> claims, signature |-> Hmac(secret, claims)]

\* jsonwebtoken::decode with Validation::default(): signature, then exp
decode(token, secret, t) ==
  IF token.signature # Hmac(secret, token.claims) THEN NoneV
  ELSE IF token.claims.exp + Leeway < t THEN NoneV
  ELSE Some(token.claims)

AuthService_generate_token(secret, user, session_id, t) ==
  encode([sub |-> to_string(user.id),
          email |-> user.email,
          exp |-> t + jwt_expiration_hours * 60,
          iat |-> t,
          iss |-> "football-heritage-api",
          aud |-> "football-heritage-client",
          session_id |-> session_id,
          role |-> IF IsSome(user.role) THEN Unwrap(user.role) ELSE "user"],
         secret)

\* a token of another deployment, signed with its secret
ForeignTokens ==
  { AuthService_generate_token(OtherSecret, u, "test_session_123", 0) : u \in AuthUsers }

\* AuthService::new
AuthQuiet ==
  /\ auth_now = 0
  /\ active_sessions = [id \in SessionIds |-> NoneV]
  /\ issued = {}
  /\ apc = "idle"
  /\ atoken = NoneV
  /\ aresult = NoneV
  /\ last_write = [id \in SessionIds |-> [method |-> "none", user_id |-> 0]]

generate_token(user, session_id) ==
  /\ Cardinality(issued) < MaxTokens
  /\ issued' = issued \cup {AuthService_generate_token(jwt_secret, user, session_id, auth_now)}
  /\ UNCHANGED <<auth_now, active_sessions, apc, atoken, aresult, last_write,
                 storeVars, rateVars, cipherVars>>

\* validate_token up to the call of ensure_active_session
validate_token(token) ==
  /\ apc = "idle"
  /\ atoken' = Some(token)
  /\ IF decode(token, jwt_secret, auth_now) = NoneV
       THEN aresult' = Some([kind |-> "JWT", claims |-> NoneV]) /\ apc' = "idle"
     ELSE aresult' = NoneV /\ apc' = "ensure"
  /\ UNCHANGED <<auth_now, active_sessions, issued, last_write,
                 storeVars, rateVars, cipherVars>>

\* what the block holding the get_mut guard decides about a session
SessionStale(session, claims, t) ==
  \/ ~session.is_active
  \/ t - session.last_activity > session_timeout_minutes
  \/ to_string(session.user_id) # claims.sub

\* mutant: the activity stamp is refreshed before the timeout is compared
ensure_active_session_touching_first ==
  /\ apc = "ensure"
  /\ LET claims == Unwrap(atoken).claims
         entry == active_sessions[claims.session_id]
     IN  IF entry = NoneV
           THEN /\ aresult' = Some([kind |-> "SessionExpired", claims |-> NoneV])
                /\ apc' = "idle"
                /\ UNCHANGED active_sessions
         ELSE IF SessionStale([Unwrap(entry) EXCEPT !.last_activity = auth_now], claims, auth_now)
           THEN /\ apc' = "remove"
                /\ UNCHANGED <<aresult, active_sessions>>
         ELSE /\ active_sessions' =
                   [active_sessions EXCEPT ![claims.session_id] =
                      Some([Unwrap(entry) EXCEPT !.last_activity = auth_now])]
              /\ aresult' = Some([kind |-> "Ok", claims |-> Some(claims)])
              /\ apc' = "idle"
  /\ UNCHANGED <<auth_now, issued, atoken, last_write, storeVars, rateVars, cipherVars>>

\* ensure_active_session while it holds the entry's guard
ensure_active_session ==
  /\ apc = "ensure"
  /\ LET claims == Unwrap(atoken).claims
         entry == active_sessions[claims.session_id]
     IN  IF entry = NoneV
           THEN /\ aresult' = Some([kind |-> "SessionExpired", claims |-> NoneV])
                /\ apc' = "idle"
                /\ UNCHANGED active_sessions
         ELSE IF SessionStale(Unwrap(entry), claims, auth_now)
           THEN /\ apc' = "remove"
                /\ UNCHANGED <<aresult, active_sessions>>
         ELSE /\ active_sessions' =
                   [active_sessions EXCEPT ![claims.session_id] =
                      Some([Unwrap(entry) EXCEPT !.last_activity = auth_now])]
              /\ aresult' = Some([kind |-> "Ok", claims |-> Some(claims)])
              /\ apc' = "idle"
  /\ UNCHANGED <<auth_now, issued, atoken, last_write, storeVars, rateVars, cipherVars>>

\* ensure_active_session after the guard is dropped: remove, SessionExpired
ensure_active_session_remove ==
  /\ apc = "remove"
  /\ active_sessions' = [active_sessions EXCEPT ![Unwrap(atoken).claims.session_id] = NoneV]
  /\ last_write' = [last_write EXCEPT ![Unwrap(atoken).claims.session_id] =
                     [method |-> "ensure_active_session", user_id |-> 0]]
  /\ aresult' = Some([kind |-> "SessionExpired", claims |-> NoneV])
  /\ apc' = "idle"
  /\ UNCHANGED <<auth_now, issued, atoken, storeVars, rateVars, cipherVars>>

create_session(user, session_id) ==
  /\ active_sessions' =
       [active_sessions EXCEPT ![session_id] =
          Some([user_id |-> user.id, email |-> user.email,
                ip_address |-> "127.0.0.1", user_agent |-> "Mozilla/5.0",
                created_at |-> auth_now, last_activity |-> auth_now, is_active |-> TRUE])]
  /\ last_write' = [last_write EXCEPT ![session_id] =
                     [method |-> "create_session", user_id |-> user.id]]
  /\ UNCHANGED <<auth_now, issued, apc, atoken, aresult, storeVars, rateVars, cipherVars>>

get_session(session_id) == active_sessions[session_id]

update_session_activity(session_id) ==
  /\ IF IsSome(active_sessions[session_id])
       THEN active_sessions' =
              [active_sessions EXCEPT ![session_id] =
                 Some([Unwrap(@) EXCEPT !.last_activity = auth_now])]
     ELSE UNCHANGED active_sessions
  /\ UNCHANGED <<auth_now, issued, apc, atoken, aresult, last_write,
                 storeVars, rateVars, cipherVars>>

invalidate_session(session_id) ==
  /\ active_sessions' = [active_sessions EXCEPT ![session_id] = NoneV]
  /\ last_write' = [last_write EXCEPT ![session_id] =
                     [method |-> "invalidate_session", user_id |-> 0]]
  /\ UNCHANGED <<auth_now, issued, apc, atoken, aresult, storeVars, rateVars, cipherVars>>

cleanup_expired_sessions ==
  LET expired_sessions ==
        { id \in SessionIds :
            /\ IsSome(active_sessions[id])
            /\ \/ auth_now - Unwrap(active_sessions[id]).last_activity > session_timeout_minutes
               \/ ~Unwrap(active_sessions[id]).is_active }
  IN  /\ active_sessions' = [id \in SessionIds |->
                               IF id \in expired_sessions THEN NoneV ELSE active_sessions[id]]
      /\ last_write' = [id \in SessionIds |->
                          IF id \in expired_sessions
                          THEN [method |-> "cleanup_expired_sessions", user_id |-> 0]
                          ELSE last_write[id]]
      /\ UNCHANGED <<auth_now, issued, apc, atoken, aresult, storeVars, rateVars, cipherVars>>

AuthTick ==
  /\ auth_now < MaxAuthTicks * AuthStep
  /\ auth_now' = auth_now + AuthStep
  /\ UNCHANGED <<active_sessions, issued, apc, atoken, aresult, last_write,
                 storeVars, rateVars, cipherVars>>

AuthStart == StoreQuiet /\ RateStart /\ CipherQuiet /\ AuthQuiet

AuthNext ==
  \/ \E u \in AuthUsers : \E id \in SessionIds : generate_token(u, id)
  \/ \E t \in issued \cup ForeignTokens : validate_token(t)
  \/ ensure_active_session
  \/ ensure_active_session_remove
  \/ \E u \in AuthUsers : \E id \in SessionIds : create_session(u, id)
  \/ \E id \in SessionIds : update_session_activity(id)
  \/ \E id \in SessionIds : invalidate_session(id)
  \/ cleanup_expired_sessions
  \/ AuthTick

SpecAuth == AuthStart /\ [][AuthNext]_vars

CipherInit ==
  /\ encryption_key \in CipherKeys
  /\ amount_in \in Amounts
  /\ sealed = NoneV
  /\ presented = NoneV
  /\ tampering = "none"
  /\ opened = NoneV
  /\ cpc = "start"

\* encrypt_balance(&amount) with the nonce OsRng draws
cipher_encrypt_balance(n) ==
  /\ cpc = "start"
  /\ sealed' = Some(CryptoService_encrypt_balance(encryption_key, amount_in, n))
  /\ presented' = sealed'
  /\ cpc' = "sealed"
  /\ UNCHANGED <<encryption_key, amount_in, tampering, opened, storeVars, rateVars, authVars>>

Tamper(kind, pair) ==
  /\ cpc = "sealed"
  /\ tampering = "none"
  /\ presented' = Some(pair)
  /\ tampering' = kind
  /\ UNCHANGED <<encryption_key, amount_in, sealed, opened, cpc, storeVars, rateVars, authVars>>

\* a bit of the stored ciphertext changes
cipher_flip_ciphertext(i, b) ==
  /\ IsSome(presented) /\ i \in DOMAIN Unwrap(presented).encrypted_balance
  /\ Tamper("ciphertext_bit",
            [Unwrap(presented) EXCEPT !.encrypted_balance = FlipIn(@, i, b)])

\* a bit of the stored nonce changes
cipher_flip_nonce(i, b) ==
  /\ IsSome(presented) /\ i \in DOMAIN Unwrap(presented).encryption_iv
  /\ Tamper("nonce_bit",
            [Unwrap(presented) EXCEPT !.encryption_iv = FlipIn(@, i, b)])

\* the stored nonce loses its last byte or gains one
cipher_resize_nonce(longer) ==
  /\ IsSome(presented)
  /\ Tamper("nonce_length",
            [Unwrap(presented) EXCEPT !.encryption_iv =
               IF longer THEN @ \o Base64Encode(<<0>>) ELSE SubSeq(@, 1, Len(@) - 1)])

\* a character outside the base64 alphabet appears in one of the two columns
cipher_corrupt_encoding(in_iv, i) ==
  /\ IsSome(presented)
  /\ i \in DOMAIN (IF in_iv THEN Unwrap(presented).encryption_iv
                    ELSE Unwrap(presented).encrypted_balance)
  /\ Tamper("not_base64",
            IF in_iv THEN [Unwrap(presented) EXCEPT !.encryption_iv[i] = 0]
            ELSE [Unwrap(presented) EXCEPT !.encrypted_balance[i] = 0])

\* the column holds, under the same key, the encryption of a text that is no number
cipher_store_other_text(text, n) ==
  /\ Tamper("not_decimal", SealBytes(encryption_key, NonceBytes(n), text))

\* decrypt_balance(&encrypted_balance, &iv)
cipher_decrypt_balance ==
  /\ cpc = "sealed"
  /\ opened' = CryptoService_decrypt_balance(encryption_key,
                  Unwrap(presented).encrypted_balance, Unwrap(presented).encryption_iv)
  /\ cpc' = "opened"
  /\ UNCHANGED <<encryption_key, amount_in, sealed, presented, tampering, storeVars, rateVars, authVars>>

CipherNext ==
  \/ \E n \in Nonces : cipher_encrypt_balance(n)
  \/ \E i \in 1..8 : \E b \in Bits : cipher_flip_ciphertext(i, b)
  \/ \E i \in 1..NonceLen : \E b \in Bits : cipher_flip_nonce(i, b)
  \/ \E longer \in BOOLEAN : cipher_resize_nonce(longer)
  \/ \E in_iv \in BOOLEAN : \E i \in 1..NonceLen : cipher_corrupt_encoding(in_iv, i)
  \/ \E text \in NonDecimalTexts : \E n \in Nonces : cipher_store_other_text(text, n)
  \/ cipher_decrypt_balance

CipherStart == StoreQuiet /\ RateStart /\ CipherInit /\ AuthQuiet

SpecCipher == CipherStart /\ [][CipherNext]_vars

RateInit == StoreQuiet /\ RateStart /\ CipherQuiet /\ AuthQuiet

RateNext ==
  \/ RateLimiter_check
  \/ \E p \in Callers : \E l \in KeyedLimiters : \E k \in Keys : UserRateLimiter_check_call(p, l, k)
  \/ \E p \in Callers : UserRateLimiter_check_entry(p)
  \/ \E p \in Callers : UserRateLimiter_check_limiter(p)
  \/ \E l \in KeyedLimiters : UserRateLimiter_cleanup_inactive(l)
  \/ \E l \in KeyedLimiters : IpRateLimiter_cleanup_inactive(l)
  \/ RateLimiters_cleanup_all
  \/ RateTick

SpecRate == RateInit /\ [][RateNext]_vars

Init == StoreInit /\ RateStart /\ CipherQuiet /\ AuthQuiet

Next ==
  \/ \E p \in Procs : \E r \in BetRequests : place_bet_begin(p, r)
  \/ \E p \in Procs : place_bet_fetch_event(p)
  \/ \E p \in Procs : place_bet_get_wallet_balance(p)
  \/ \E p \in Procs : place_bet_check_gambling_limits(p)
  \/ \E p \in Procs : place_bet_check_period(p)
  \/ \E p \in Procs : place_bet_create_bet_record(p)
  \/ \E p \in Procs : place_bet_update_wallet_balance(p)
  \/ \E p \in Procs : place_bet_create_transaction_record(p)
  \/ \E p \in Procs : place_bet_commit(p)
  \/ \E p \in Procs : \E a \in TransferAmounts : deposit_begin(p, a)
  \/ \E p \in Procs : deposit_select_wallet(p)
  \/ \E p \in Procs : deposit_update_wallet(p)
  \/ \E p \in Procs : deposit_insert_transaction(p)
  \/ \E p \in Procs : deposit_commit(p)
  \/ \E p \in Procs : \E a \in TransferAmounts : withdraw_begin(p, a)
  \/ \E p \in Procs : withdraw_select_wallet(p)
  \/ \E p \in Procs : withdraw_update_wallet(p)
  \/ \E p \in Procs : withdraw_insert_transaction(p)
  \/ \E p \in Procs : withdraw_commit(p)
  \/ \E p \in Procs : StoreFailure(p)
  \/ \E p \in Procs : \E ok \in BOOLEAN : detect_fraud_velocity(p, ok)
  \/ \E p \in Procs : \E ok \in BOOLEAN : detect_fraud_magnitude(p, ok)
  \/ Tick

Spec == Init /\ [][Next]_vars

(* --------------- the placement pipeline, polled to the end ------------ *)
\* two callers place bets against one wallet of 10.00; every awaited store
\* call returns, with a row or with an error
FairRequests == {PlainBet, [PlainBet EXCEPT !.amount = 99]}

FairInit ==
  /\ StoreInit /\ RateStart /\ CipherQuiet /\ AuthQuiet
  /\ Len(wallets) = 1 /\ decrypt_balance(wallets[1].encrypted_balance, wallets[1].encryption_iv) = Some(1000)
  /\ gambling_limits = NoneV \/ IsSome(Unwrap(gambling_limits).daily_bet_limit)

FairNext ==
  \/ \E p \in Procs : \E r \in FairRequests : place_bet_begin(p, r)
  \/ \E p \in Procs : place_bet_fetch_event(p)
  \/ \E p \in Procs : place_bet_get_wallet_balance(p)
  \/ \E p \in Procs : place_bet_check_gambling_limits(p)
  \/ \E p \in Procs : place_bet_check_period(p)
  \/ \E p \in Procs : place_bet_create_bet_record(p)
  \/ \E p \in Procs : place_bet_update_wallet_balance(p)
  \/ \E p \in Procs : place_bet_create_transaction_record(p)
  \/ \E p \in Procs : place_bet_commit(p)
  \/ \E p \in Procs : StoreFailure(p)

\* the steps of a begun placement that the runtime polls and the store answers
Proceed(p) ==
  \/ place_bet_fetch_event(p)
  \/ place_bet_get_wallet_balance(p)
  \/ place_bet_check_gambling_limits(p)
  \/ place_bet_check_period(p)
  \/ place_bet_create_bet_record(p)
  \/ place_bet_update_wallet_balance(p)
  \/ place_bet_create_transaction_record(p)
  \/ place_bet_commit(p)

FairSpec == FairInit /\ [][FairNext]_vars /\ \A p \in Procs : WF_vars(Proceed(p))

(* ------------- placements that break several rules at once ----------- *)
OrderRequests ==
  [event_id : {1, 2}, bet_type : {"moneyline"}, selection : {"home"},
   odds : {200, 211}, amount : {99, 1000, 3000}]

OrderBalances == {1000, 5000}

OrderLimitProfiles ==
  { NoneV,
    Some([daily_bet_limit |-> Some(500), weekly_bet_limit |-> NoneV,
          monthly_bet_limit |-> Some(2000), max_single_bet |-> Some(1000),
          self_exclusion_until |-> Some(Day)]),
    Some([daily_bet_limit |-> NoneV, weekly_bet_limit |-> Some(1000),
          monthly_bet_limit |-> Some(1000), max_single_bet |-> Some(1000),
          self_exclusion_until |-> Some(0)]) }

OrderInit ==
  /\ RateStart /\ CipherQuiet /\ AuthQuiet
  /\ now = 0
  /\ wallets \in { <<[id |-> 100] @@ encrypt_balance(b, 0)>> : b \in OrderBalances }
  /\ bets = <<>>
  /\ transactions = <<>>
  /\ wallet_lock = 0
  /\ gambling_limits \in OrderLimitProfiles
  /\ pc = [p \in Procs |-> "idle"]
  /\ op = [p \in Procs |-> "none"]
  /\ req = [p \in Procs |-> NoReq]
  /\ loc = [p \in Procs |-> NoLoc]
  /\ tx = [p \in Procs |-> NoTx]
  /\ result = [p \in Procs |-> "none"]
  /\ scan = [p \in Procs |-> "none"]
  /\ alerts = {}
  /\ initial_wallets = wallets
  /\ users = {"A"}

OrderNext ==
  \/ \E p \in Procs : \E r \in OrderRequests : place_bet_begin(p, r)
  \/ \E p \in Procs : place_bet_fetch_event(p)
  \/ \E p \in Procs : place_bet_get_wallet_balance(p)
  \/ \E p \in Procs : place_bet_check_gambling_limits(p)
  \/ \E p \in Procs : place_bet_check_period(p)
  \/ \E p \in Procs : place_bet_create_bet_record(p)
  \/ \E p \in Procs : place_bet_update_wallet_balance(p)
  \/ \E p \in Procs : place_bet_create_transaction_record(p)
  \/ \E p \in Procs : place_bet_commit(p)
  \/ \E p \in Procs : StoreFailure(p)
  \/ Tick

SpecOrder == OrderInit /\ [][OrderNext]_vars

(* ------------------ placements of a subject who bets often ------------ *)
ScanNow == 2 * TenMinutes
ScanBalance == 5000
ScanStake == 100

\* the subject's committed bets so far: b made exactly ten minutes ago, then
\* r made five minutes ago
ScanBets(b, r) ==
  [i \in 1..(b + r) |->
     [id |-> 10 + i, event_id |-> 1, bet_type |-> "MONEYLINE", selection |-> "HOME",
      odds |-> 200, amount |-> ScanStake,
      potential_win |-> calculate_potential_win(ScanStake, 200),
      status |-> "PENDING",
      created_at |-> IF i <= b THEN ScanNow - TenMinutes ELSE ScanNow - TenMinutes \div 2]]

\* and their audit rows
ScanAudits(b, r) ==
  [i \in 1..(b + r) |->
     [transaction_type |-> "BET_PLACED", amount |-> ScanStake, wallet_id |-> 100,
      balance_before |-> ScanBalance + (b + r - i + 1) * ScanStake,
      balance_after |-> ScanBalance + (b + r - i) * ScanStake,
      bet_id |-> 10 + i,
      created_at |-> IF i <= b THEN ScanNow - TenMinutes ELSE ScanNow - TenMinutes \div 2]]

ScanInit ==
  /\ RateStart /\ CipherQuiet /\ AuthQuiet
  /\ now = ScanNow
  /\ wallets = <<[id |-> 100] @@ encrypt_balance(ScanBalance, 0)>>
  /\ \E b \in 0..1 : \E r \in (VelocityThreshold - 2)..(VelocityThreshold + 1) :
       bets = ScanBets(b, r) /\ transactions = ScanAudits(b, r)
  /\ wallet_lock = 0
  /\ gambling_limits = NoneV
  /\ pc = [p \in Procs |-> "idle"]
  /\ op = [p \in Procs |-> "none"]
  /\ req = [p \in Procs |-> NoReq]
  /\ loc = [p \in Procs |-> NoLoc]
  /\ tx = [p \in Procs |-> NoTx]
  /\ result = [p \in Procs |-> "none"]
  /\ scan = [p \in Procs |-> "none"]
  /\ alerts = {}
  /\ initial_wallets = wallets
  /\ users = {"A"}

ScanNext ==
  \/ \E p \in Procs : place_bet_begin(p, [PlainBet EXCEPT !.amount = ScanStake])
  \/ \E p \in Procs : place_bet_fetch_event(p)
  \/ \E p \in Procs : place_bet_get_wallet_balance(p)
  \/ \E p \in Procs : place_bet_check_gambling_limits(p)
  \/ \E p \in Procs : place_bet_create_bet_record(p)
  \/ \E p \in Procs : place_bet_update_wallet_balance(p)
  \/ \E p \in Procs : place_bet_create_transaction_record(p)
  \/ \E p \in Procs : place_bet_commit(p)
  \/ \E p \in Procs : \E ok \in BOOLEAN : detect_fraud_velocity(p, ok)
  \/ \E p \in Procs : \E ok \in BOOLEAN : detect_fraud_magnitude(p, ok)
  \/ Tick

SpecScan == ScanInit /\ [][ScanNext]_vars

(* ------------------- register and the wallet handlers ------------------ *)
\* the gambling_limits row register writes from the configuration's defaults
DefaultLimits ==
  Some([daily_bet_limit |-> Some(200000), weekly_bet_limit |-> Some(1000000),
        monthly_bet_limit |-> Some(3000000), max_single_bet |-> Some(50000),
        self_exclusion_until |-> NoneV])

\* the User row register inserts for the subject
RegisteredUser == [id |-> 2, email |-> "two@example.com", role |-> NoneV]

\* register: SELECT * FROM users WHERE email = $1
register_select_user(p) ==
  /\ pc[p] = "idle"
  /\ op' = [op EXCEPT ![p] = "register"]
  /\ IF "A" \in users
       THEN pc' = [pc EXCEPT ![p] = "done"] /\ result' = [result EXCEPT ![p] = "Validation"]
     ELSE pc' = [pc EXCEPT ![p] = "insert_user"] /\ UNCHANGED result
  /\ UNCHANGED <<now, wallets, bets, transactions, wallet_lock, gambling_limits,
                 req, loc, tx, scan, alerts, initial_wallets, users, rateVars, cipherVars, authVars>>

\* register: INSERT INTO users, on the pool; a second row for the email is a
\* unique_violation
register_insert_user(p) ==
  /\ pc[p] = "insert_user" /\ op[p] = "register"
  /\ IF "A" \in users
       THEN /\ pc' = [pc EXCEPT ![p] = "done"]
            /\ result' = [result EXCEPT ![p] = "EmailAlreadyRegistered"]
            /\ UNCHANGED users
     ELSE /\ users' = users \cup {"A"}
          /\ pc' = [pc EXCEPT ![p] = "insert_wallet"]
          /\ UNCHANGED result
  /\ UNCHANGED <<now, wallets, bets, transactions, wallet_lock, gambling_limits,
                 op, req, loc, tx, scan, alerts, initial_wallets, rateVars, cipherVars, authVars>>

\* register: INSERT INTO wallets with a zero balance, on the pool; ok is
\* whether the statement succeeded
register_insert_wallet(p, ok) ==
  /\ pc[p] = "insert_wallet" /\ op[p] = "register"
  /\ IF ok
       THEN /\ \E n \in Nonces :
                 wallets' = Append(wallets, [id |-> NewWalletId(p)] @@ encrypt_balance(0, n))
            /\ pc' = [pc EXCEPT ![p] = "insert_limits"]
            /\ UNCHANGED result
     ELSE /\ pc' = [pc EXCEPT ![p] = "done"]
          /\ result' = [result EXCEPT ![p] = "Database"]
          /\ UNCHANGED wallets
  /\ UNCHANGED <<now, bets, transactions, wallet_lock, gambling_limits,
                 op, req, loc, tx, scan, alerts, initial_wallets, users, rateVars, cipherVars, authVars>>

\* register: INSERT INTO gambling_limits, then create_session and generate_token
register_insert_limits(p) ==
  /\ pc[p] = "insert_limits" /\ op[p] = "register"
  /\ gambling_limits' = DefaultLimits
  /\ \E session_id \in SessionIds :
       /\ active_sessions[session_id] = NoneV
       /\ active_sessions' =
            [active_sessions EXCEPT ![session_id] =
               Some([user_id |-> RegisteredUser.id, email |-> RegisteredUser.email,
                     ip_address |-> "127.0.0.1", user_agent |-> "Mozilla/5.0",
                     created_at |-> auth_now, last_activity |-> auth_now,
                     is_active |-> TRUE])]
       /\ last_write' = [last_write EXCEPT ![session_id] =
                          [method |-> "create_session", user_id |-> RegisteredUser.id]]
       /\ issued' = issued \cup
            {AuthService_generate_token(jwt_secret, RegisteredUser, session_id, auth_now)}
  /\ pc' = [pc EXCEPT ![p] = "done"]
  /\ result' = [result EXCEPT ![p] = "Ok"]
  /\ UNCHANGED <<now, wallets, bets, transactions, wallet_lock,
                 op, req, loc, tx, scan, alerts, initial_wallets, users,
                 auth_now, apc, atoken, aresult, rateVars, cipherVars>>

\* get_balance: SELECT encrypted_balance, encryption_iv FROM wallets on the
\* pool, then decrypt_balance of the row found
get_balance_select(p) ==
  /\ pc[p] = "idle" /\ "A" \in users
  /\ op' = [op EXCEPT ![p] = "get_balance"]
  /\ IF wallets = <<>>
       THEN pc' = [pc EXCEPT ![p] = "create_wallet"] /\ UNCHANGED <<loc, result>>
     ELSE \E i \in DOMAIN wallets :
            LET balance == decrypt_balance(wallets[i].encrypted_balance,
                                           wallets[i].encryption_iv)
            IN  /\ pc' = [pc EXCEPT ![p] = "done"]
                /\ IF balance = NoneV
                     THEN result' = [result EXCEPT ![p] = "Encryption"] /\ UNCHANGED loc
                   ELSE /\ result' = [result EXCEPT ![p] = "Ok"]
                        /\ loc' = [loc EXCEPT ![p].current_balance = Unwrap(balance)]
  /\ UNCHANGED <<now, wallets, bets, transactions, wallet_lock, gambling_limits,
                 req, tx, scan, alerts, initial_wallets, users, rateVars, cipherVars, authVars>>

\* get_balance, RowNotFound: INSERT INTO wallets with 0.00 on the pool, then
\* decrypt_balance of the pair just written
get_balance_create_wallet(p) ==
  /\ pc[p] = "create_wallet" /\ op[p] = "get_balance"
  /\ \E n \in Nonces :
       wallets' = Append(wallets, [id |-> NewWalletId(p)] @@ encrypt_balance(0, n))
  /\ pc' = [pc EXCEPT ![p] = "done"]
  /\ result' = [result EXCEPT ![p] = "Ok"]
  /\ loc' = [loc EXCEPT ![p].current_balance = 0]
  /\ UNCHANGED <<now, bets, transactions, wallet_lock, gambling_limits,
                 op, req, tx, scan, alerts, initial_wallets, users, rateVars, cipherVars, authVars>>

\* nobody registered, or the subject registered with no wallet row or one
WalletInit ==
  /\ RateStart /\ CipherQuiet /\ AuthQuiet
  /\ now = 0
  /\ users \in {{}, {"A"}}
  /\ wallets \in {<<>>} \cup
       { <<[id |-> 100] @@ encrypt_balance(b, 0)>> : b \in IF users = {} THEN {} ELSE {0} }
  /\ bets = <<>>
  /\ transactions = <<>>
  /\ wallet_lock = 0
  /\ gambling_limits = NoneV
  /\ pc = [p \in Procs |-> "idle"]
  /\ op = [p \in Procs |-> "none"]
  /\ req = [p \in Procs |-> NoReq]
  /\ loc = [p \in Procs |-> NoLoc]
  /\ tx = [p \in Procs |-> NoTx]
  /\ result = [p \in Procs |-> "none"]
  /\ scan = [p \in Procs |-> "none"]
  /\ alerts = {}
  /\ initial_wallets = wallets

WalletNext ==
  \/ \E p \in Procs : register_select_user(p)
  \/ \E p \in Procs : register_insert_user(p)
  \/ \E p \in Procs : \E ok \in BOOLEAN : register_insert_wallet(p, ok)
  \/ \E p \in Procs : register_insert_limits(p)
  \/ \E p \in Procs : get_balance_select(p)
  \/ \E p \in Procs : get_balance_create_wallet(p)
  \/ \E p \in Procs : \E a \in TransferAmounts : "A" \in users /\ deposit_begin(p, a)
  \/ \E p \in Procs : deposit_select_wallet(p)
  \/ \E p \in Procs : deposit_update_wallet(p)
  \/ \E p \in Procs : deposit_insert_transaction(p)
  \/ \E p \in Procs : deposit_commit(p)
  \/ \E p \in Procs : \E a \in TransferAmounts : "A" \in users /\ withdraw_begin(p, a)
  \/ \E p \in Procs : withdraw_select_wallet(p)
  \/ \E p \in Procs : withdraw_update_wallet(p)
  \/ \E p \in Procs : withdraw_insert_transaction(p)
  \/ \E p \in Procs : withdraw_commit(p)

SpecWallet == WalletInit /\ [][WalletNext]_vars

(* ---------------------- the bet-placement handler ---------------------- *)
\* validate_bet_type
validate_bet_type(bet_type) == bet_type \in {"MONEYLINE", "SPREAD", "TOTAL"}

\* validate_selection
validate_selection(selection) == selection \in {"HOME", "AWAY", "OVER", "UNDER"}

\* PlaceBetRequest::validate
PlaceBetRequest_validate(body) ==
  validate_bet_type(body.bet_type) /\ validate_selection(body.selection)

\* the bodies posted to the handler
HandlerBodies ==
  [event_id : {1}, bet_type : {"MONEYLINE", "moneyline"}, selection : {"HOME", "DRAW"},
   odds : {200}, amount : {1000}]

\* UserRateLimiter::check of the bet limiter for the one subject, whole: the
\* entry is held from the lookup to the end of limiter.check()
check_bet_limit ==
  LET e == keyed_limiters["bet_limiter"]["A"]
      bucket == IF e = NoneV THEN [start |-> rl_now, cell |-> 0] ELSE Unwrap(e)
      r == GcraCheck(LimiterQuota("bet_limiter"), bucket.cell, rl_now - bucket.start)
  IN  [ok |-> r.ok,
       keyed_limiters |-> [keyed_limiters EXCEPT !["bet_limiter"]["A"] =
                             Some([start |-> bucket.start, cell |-> r.cell])],
       created |-> [created EXCEPT !["bet_limiter"]["A"] = IF e = NoneV THEN @ + 1 ELSE @],
       history |-> [history EXCEPT !["bet_limiter"]["A"] =
                      Append(@, [at |-> rl_now, ok |-> r.ok, raced |-> FALSE])]]

\* the handler returns before the service is built
HandlerReturn(p, body, err) ==
  /\ pc' = [pc EXCEPT ![p] = "done"]
  /\ op' = [op EXCEPT ![p] = "place_bet"]
  /\ req' = [req EXCEPT ![p] = body]
  /\ result' = [result EXCEPT ![p] = err]

\* mutant: the rate limit is checked before the body is validated
handlers_place_bet_limiting_first(p, body, authed) ==
  /\ pc[p] = "idle"
  /\ LET c == check_bet_limit
     IN  /\ keyed_limiters' = c.keyed_limiters
         /\ created' = c.created
         /\ history' = c.history
         /\ IF ~c.ok THEN HandlerReturn(p, body, "RateLimitExceeded")
            ELSE IF ~PlaceBetRequest_validate(body) THEN HandlerReturn(p, body, "Validation")
            ELSE IF ~authed THEN HandlerReturn(p, body, "Authentication")
            ELSE /\ pc' = [pc EXCEPT ![p] = "admitted"]
                 /\ op' = [op EXCEPT ![p] = "place_bet"]
                 /\ req' = [req EXCEPT ![p] = body]
                 /\ UNCHANGED result
  /\ UNCHANGED <<now, wallets, bets, transactions, wallet_lock, gambling_limits,
                 loc, tx, scan, alerts, initial_wallets, users,
                 rl_now, direct_limiter, direct_history, rpc, rcall, cipherVars, authVars>>

\* handlers::betting::place_bet up to the rate limit: body.validate(), then
\* extract_user_id
handlers_place_bet(p, body, authed) ==
  /\ pc[p] = "idle"
  /\ IF ~PlaceBetRequest_validate(body) THEN HandlerReturn(p, body, "Validation")
     ELSE IF ~authed THEN HandlerReturn(p, body, "Authentication")
     ELSE /\ pc' = [pc EXCEPT ![p] = "check_bet_limit"]
          /\ op' = [op EXCEPT ![p] = "place_bet"]
          /\ req' = [req EXCEPT ![p] = body]
          /\ UNCHANGED result
  /\ UNCHANGED <<now, wallets, bets, transactions, wallet_lock, gambling_limits,
                 loc, tx, scan, alerts, initial_wallets, users, rateVars, cipherVars, authVars>>

\* rate_limiters.check_bet_limit(user_id)?
handlers_place_bet_check_bet_limit(p) ==
  /\ pc[p] = "check_bet_limit"
  /\ LET c == check_bet_limit
     IN  /\ keyed_limiters' = c.keyed_limiters
         /\ created' = c.created
         /\ history' = c.history
         /\ IF c.ok
            THEN pc' = [pc EXCEPT ![p] = "admitted"] /\ UNCHANGED result
            ELSE /\ pc' = [pc EXCEPT ![p] = "done"]
                 /\ result' = [result EXCEPT ![p] = "RateLimitExceeded"]
  /\ UNCHANGED <<now, wallets, bets, transactions, wallet_lock, gambling_limits,
                 op, req, loc, tx, scan, alerts, initial_wallets, users,
                 rl_now, direct_limiter, direct_history, rpc, rcall, cipherVars, authVars>>

\* betting_service.place_bet(...): pool.begin()
handlers_place_bet_service(p) ==
  /\ pc[p] = "admitted"
  /\ pc' = [pc EXCEPT ![p] = "fetch_event"]
  /\ loc' = [loc EXCEPT ![p].tx_start = now]
  /\ UNCHANGED <<now, wallets, bets, transactions, wallet_lock, gambling_limits,
                 op, req, tx, result, scan, alerts, initial_wallets, users, rateVars, cipherVars, authVars>>

HandlerInit ==
  /\ RateStart /\ CipherQuiet /\ AuthQuiet
  /\ now = 0
  /\ wallets \in { <<[id |-> 100] @@ encrypt_balance(b, 0)>> : b \in OrderBalances }
  /\ bets = <<>>
  /\ transactions = <<>>
  /\ wallet_lock = 0
  /\ gambling_limits = NoneV
  /\ pc = [p \in Procs |-> "idle"]
  /\ op = [p \in Procs |-> "none"]
  /\ req = [p \in Procs |-> NoReq]
  /\ loc = [p \in Procs |-> NoLoc]
  /\ tx = [p \in Procs |-> NoTx]
  /\ result = [p \in Procs |-> "none"]
  /\ scan = [p \in Procs |-> "none"]
  /\ alerts = {}
  /\ initial_wallets = wallets
  /\ users = {"A"}

HandlerNext ==
  \/ \E p \in Procs : \E body \in HandlerBodies : \E authed \in BOOLEAN :
       handlers_place_bet(p, body, authed)
  \/ \E p \in Procs : handlers_place_bet_check_bet_limit(p)
  \/ \E p \in Procs : handlers_place_bet_service(p)
  \/ \E p \in Procs : place_bet_fetch_event(p)
  \/ \E p \in Procs : place_bet_get_wallet_balance(p)
  \/ \E p \in Procs : place_bet_check_gambling_limits(p)
  \/ \E p \in Procs : place_bet_create_bet_record(p)
  \/ \E p \in Procs : place_bet_update_wallet_balance(p)
  \/ \E p \in Procs : place_bet_create_transaction_record(p)
  \/ \E p \in Procs : place_bet_commit(p)
  \/ RateTick

SpecHandler == HandlerInit /\ [][HandlerNext]_vars

(* ====================== claims on the betting store ==================== *)
WalletBalance(row) == decrypt_balance(row.encrypted_balance, row.encryption_iv)

LedgerSum(kind) ==
  SumSeq([i \in DOMAIN transactions |->
            IF transactions[i].transaction_type = kind THEN transactions[i].amount ELSE 0])

Returned(p) == pc[p] = "done" /\ op[p] = "place_bet"

\* C1: two concurrent placements of 10.00 against a wallet holding 10.00, every
\* other check passing: one commits its bet, the other returns InsufficientFunds,
\* and they never both succeed.
C1_OneOfTwoPlacementsSucceeds ==
  ( /\ Len(initial_wallets) = 1
    /\ WalletBalance(initial_wallets[1]) = Some(1000)
    /\ \A p \in {1, 2} : Returned(p) /\ req[p] = PlainBet
                           /\ result[p] \in {"Ok", "InsufficientFunds"} )
  => /\ \E p \in {1, 2} : result[p] = "Ok"
     /\ \E p \in {1, 2} : result[p] = "InsufficientFunds"

\* C2: conservation of money: the wallet that existed at the start always holds
\* its initial balance plus the committed deposits minus the committed
\* withdrawals minus the stakes of the committed bets.
C2_MoneyConserved ==
  Len(initial_wallets) = 1 =>
    \A i \in DOMAIN wallets :
      WalletBalance(wallets[i]) =
        Some(Unwrap(WalletBalance(initial_wallets[1])) + LedgerSum("deposit")
             - LedgerSum("withdrawal") - LedgerSum("BET_PLACED"))

AuditExact(r) ==
  r.transaction_type = "BET_PLACED" =>
    /\ r.balance_after = r.balance_before - r.amount
    /\ r.balance_after <= r.balance_before

\* C3: every audit row a placement writes has balance_after = balance_before -
\* stake and balance_after <= balance_before, and the wallet it names decrypts
\* to that balance_after when the placement's commit makes its writes visible.
C3_AuditDebitExact ==
  /\ \A i \in DOMAIN transactions : AuditExact(transactions[i])
  /\ \A p \in Procs :
       /\ \A i \in DOMAIN tx[p].transactions : AuditExact(tx[p].transactions[i])
       /\ (pc[p] = "commit" /\ op[p] = "place_bet") =>
            \A i \in DOMAIN WalletsAfter(p) :
              WalletsAfter(p)[i].id = tx[p].transactions[1].wallet_id =>
                WalletBalance(WalletsAfter(p)[i]) = Some(tx[p].transactions[1].balance_after)

C3_Witness ==
  /\ \E i \in DOMAIN transactions :
       /\ transactions[i].transaction_type = "BET_PLACED"
       /\ transactions[i].balance_after < transactions[i].balance_before
  /\ \E p \in Procs : pc[p] = "commit" /\ op[p] = "place_bet"

ValidationSteps == {"fetch_event", "get_wallet", "limits", "period", "create_bet"}

ValidationErrors ==
  {"EventNotFound", "EventNotAvailable", "InvalidBetAmount", "Database", "Encryption",
   "InsufficientFunds", "AccountLocked", "BetLimitExceeded", "OddsChanged"}

StoreUntouched ==
  /\ bets' = bets
  /\ transactions' = transactions
  /\ wallets' = wallets

\* C4: a placement that fails at a validation step returns with the bets, the
\* transactions and every wallet row (ciphertext and nonce) as they were, and
\* with nothing of its own left pending.
C4_FailedValidationChangesNothing ==
  [][ \A p \in Procs :
        ( /\ op[p] = "place_bet" /\ pc[p] \in ValidationSteps
          /\ pc'[p] = "done" /\ result'[p] \in ValidationErrors )
        => (StoreUntouched /\ tx'[p] = NoTx) ]_vars

C4_Witness ==
  /\ \E p \in Procs : Returned(p) /\ result[p] = "InsufficientFunds"
  /\ \E p \in Procs : Returned(p) /\ result[p] = "Ok"

BetsOf(rows, id) == {i \in DOMAIN rows : rows[i].id = id}

AuditsOf(rows, id) ==
  {i \in DOMAIN rows : rows[i].transaction_type = "BET_PLACED" /\ rows[i].bet_id = id}

BetAuditPaired ==
  /\ \A i \in DOMAIN bets :
       /\ bets[i].status = "PENDING"
       /\ Cardinality(BetsOf(bets, bets[i].id)) = 1
       /\ Cardinality(AuditsOf(transactions, bets[i].id)) = 1
  /\ \A i \in DOMAIN transactions :
       transactions[i].transaction_type = "BET_PLACED" =>
         Cardinality(BetsOf(bets, transactions[i].bet_id)) = 1
  /\ \A p \in Procs :
       Returned(p) =>
         /\ Cardinality(BetsOf(bets, NewBetId(p))) = (IF result[p] = "Ok" THEN 1 ELSE 0)
         /\ Cardinality(AuditsOf(transactions, NewBetId(p))) = (IF result[p] = "Ok" THEN 1 ELSE 0)

\* C5: in every committed state the bets and the BET_PLACED transactions pair
\* off one to one, a successful placement having created exactly one PENDING
\* bet and one transaction naming it; and a placement whose bet insert, wallet
\* update, audit insert or commit fails leaves the committed store as it was.
C5_BetAndAuditTogether ==
  /\ []BetAuditPaired
  /\ [][ \A p \in Procs :
          ( /\ op[p] = "place_bet"
            /\ pc[p] \in {"create_bet", "update_wallet", "audit", "commit"}
            /\ result'[p] = "Database" )
          => (StoreUntouched /\ tx'[p] = NoTx /\ wallet_lock' # p) ]_vars

C5_Witness ==
  /\ \E p \in Procs : Returned(p) /\ result[p] = "Ok"
  /\ \E p \in Procs : Returned(p) /\ result[p] = "Database" /\ loc[p].bet_id # 0
  /\ Len(bets) = 1 /\ Len(transactions) = 1

DailyCapSet ==
  IsSome(gambling_limits) /\ IsSome(Unwrap(gambling_limits).daily_bet_limit)

\* C6: with a daily cap configured, the non-cancelled stakes created within the
\* trailing day never add up to more than the cap.
C6_DailyCapNeverExceeded ==
  DailyCapSet =>
    get_period_total(bets, now, 1) <= Unwrap(Unwrap(gambling_limits).daily_bet_limit)

EventOpenAt(id, t) ==
  /\ id \in DOMAIN Events
  /\ Events[id].status = "UPCOMING"
  /\ Events[id].event_date > t

\* C7: a bet is only ever created for an event that exists, is UPCOMING and
\* starts after the time of validation; an absent event yields EventNotFound and
\* an event that is not UPCOMING or starts at or before that time yields
\* EventNotAvailable.
C7_BetsOnlyOnOpenEvents ==
  /\ \A i \in DOMAIN bets : EventOpenAt(bets[i].event_id, bets[i].created_at)
  /\ \A p \in Procs :
       /\ tx[p].bets # <<>> => EventOpenAt(req[p].event_id, loc[p].checked_at)
       /\ (Returned(p) /\ result[p] = "Ok") => EventOpenAt(req[p].event_id, loc[p].checked_at)
       /\ (Returned(p) /\ result[p] # "Database") =>
            /\ result[p] = "EventNotFound" <=> req[p].event_id \notin DOMAIN Events
            /\ result[p] = "EventNotAvailable" <=>
                 (req[p].event_id \in DOMAIN Events /\ ~EventOpenAt(req[p].event_id, loc[p].checked_at))

C7_Witness ==
  /\ \E p \in Procs : Returned(p) /\ result[p] = "EventNotAvailable" /\ req[p].event_id = 1
                        /\ Events[1].event_date = loc[p].checked_at
  /\ \E p \in Procs : Returned(p) /\ result[p] = "Ok"


(* ------------------------ claims: rate limiters ----------------------- *)
\* the outcomes one bucket gives to calls at the given times when nobody
\* else touches it: the bucket is built at the first call
RECURSIVE ReplayFrom(_, _, _, _, _)
ReplayFrom(quota, times, i, cell, acc) ==
  IF i > Len(times) THEN acc
  ELSE LET r == GcraCheck(quota, cell, times[i] - times[1])
       IN  ReplayFrom(quota, times, i + 1, r.cell, Append(acc, r.ok))

Replay(quota, times) == ReplayFrom(quota, times, 1, 0, <<>>)

CallTimes(h) == [i \in 1..Len(h) |-> h[i].at]
Outcomes(h) == [i \in 1..Len(h) |-> h[i].ok]
InWindow(h, W) == {i \in 1..Len(h) : h[i].at < h[1].at + W}
Admitted(h, W) == {i \in InWindow(h, W) : h[i].ok}

\* C8: on a fresh RateLimiter of max_requests N and window W the first N
\* calls of check() succeed, call N+1 made within the window of the first is
\* refused, and the first call made once the window has elapsed succeeds.
C8_QuotaThenRefusalThenRecovery ==
  LET h == direct_history
      N == DirectMax
      W == DirectWindow
  IN  /\ \A i \in 1..Len(h) : i <= N => h[i].ok
      /\ (Len(h) > N /\ h[N + 1].at < h[1].at + W) => ~h[N + 1].ok
      /\ \A i \in 1..Len(h) :
           (/\ h[i].at >= h[1].at + W
            /\ \A j \in 1..(i - 1) : h[j].at < h[1].at + W) => h[i].ok

C8_Witness ==
  /\ Len(direct_history) = DirectMax + 2
  /\ \A i \in 1..DirectMax : direct_history[i].ok
  /\ ~direct_history[DirectMax + 1].ok
  /\ direct_history[DirectMax + 1].at < direct_history[1].at + DirectWindow
  /\ direct_history[DirectMax + 2].at >= direct_history[1].at + DirectWindow
  /\ direct_history[DirectMax + 2].ok

\* C9: the outcomes of the calls for one key on one keyed limiter are those
\* of a bucket that only these calls touch, whatever was called for other
\* keys or on other limiters, exhausting calls included.
C9_BucketsIsolated ==
  \A l \in KeyedLimiters : \A k \in Keys :
    Outcomes(history[l][k]) = Replay(LimiterQuota(l), CallTimes(history[l][k]))

C9_Witness ==
  /\ \E i \in 1..Len(history["bet_limiter"]["A"]) :
       /\ ~history["bet_limiter"]["A"][i].ok
       /\ \E j \in 1..Len(history["bet_limiter"]["B"]) :
            /\ history["bet_limiter"]["B"][j].ok
            /\ history["bet_limiter"]["B"][j].at = history["bet_limiter"]["A"][i].at
       /\ \E j \in 1..Len(history["deposit_limiter"]["A"]) :
            /\ history["deposit_limiter"]["A"][j].ok
            /\ history["deposit_limiter"]["A"][j].at = history["bet_limiter"]["A"][i].at
  /\ \A c \in Callers : rpc[c] = "idle"

\* C10: however the calls of check(k) for a new key interleave, one bucket
\* is built for k, the tracked count counts k once, and of the calls made
\* within the window of the first exactly min(their number, max_requests)
\* succeed.
C10_OneBucketAndQuotaUnderRaces ==
  \A l \in KeyedLimiters :
    /\ \A k \in Keys :
         /\ created[l][k] <= 1
         /\ IsSome(keyed_limiters[l][k]) <=> (created[l][k] = 1)
         /\ Len(history[l][k]) > 0 => created[l][k] = 1
         /\ LET h == history[l][k]
                W == LimiterQuota(l).replenish_1_per
            IN  Cardinality(Admitted(h, W))
                  = Min(Cardinality(InWindow(h, W)), LimiterQuota(l).max_burst)
    /\ tracked_users_count(l) = Cardinality({k \in Keys : created[l][k] > 0})

C10_Witness ==
  LET h == history["bet_limiter"]["A"]
  IN  /\ Len(h) = NumCallers
      /\ h[1].raced /\ h[2].raced
      /\ \A i \in 1..Len(h) : h[i].at = h[1].at
      /\ Cardinality(Admitted(h, BetWindow)) = bet_rate_limit_per_minute
      /\ created["bet_limiter"]["A"] = 1
      /\ tracked_users_count("bet_limiter") = 1

(* --------------------------- claims: cipher --------------------------- *)
\* C11: whatever the amount and the key, decrypt_balance applied to what
\* encrypt_balance returned gives back exactly the amount.
C11_DecryptOfEncryptIsExact ==
  (cpc = "opened" /\ tampering = "none") => opened = Some(amount_in)

C11_Witness ==
  /\ cpc = "opened" /\ tampering = "none"
  /\ amount_in = 120050 /\ encryption_key # EncryptionKey
  /\ opened = Some(120050)

\* C12: a pair with one bit of the ciphertext or of the nonce changed, with a
\* nonce that is not 12 bytes long, with an undecodable character, or holding
\* a text that is no decimal number is refused with an Encryption error;
\* decrypt_balance never returns an amount other than the encrypted one.
C12_TamperedPairIsRefused ==
  cpc = "opened" =>
    /\ tampering # "none" => opened = NoneV
    /\ IsSome(opened) => Unwrap(opened) = amount_in

C12_Witness ==
  /\ cpc = "opened" /\ tampering = "ciphertext_bit" /\ opened = NoneV
  /\ Len(Unwrap(presented).encrypted_balance) = Len(Unwrap(sealed).encrypted_balance)
  /\ Unwrap(presented).encryption_iv = Unwrap(sealed).encryption_iv

(* ------------------------- claims: fraud scan ------------------------- *)
ScanOnlyAfterCommit ==
  \A p \in Procs :
    scan[p] # "none" =>
      /\ op[p] = "place_bet" /\ pc[p] = "done" /\ result[p] = "Ok"
      /\ BetsOf(bets, NewBetId(p)) # {}

\* C13: a scan exists only for a placement that has committed and returned
\* Ok, never for an aborted one; the placement has returned while its scan
\* has not run yet; and no step of a scan, failing or not, changes the
\* returned value or the committed bets, audit rows and wallet.
C13_ScanAfterCommitAndHarmless ==
  /\ []ScanOnlyAfterCommit
  /\ [][\A p \in Procs :
          (scan[p] # "none" /\ scan'[p] # scan[p]) =>
             UNCHANGED <<wallets, bets, transactions, result, pc, tx, wallet_lock>>]_vars

C13_Witness ==
  \E p, q \in Procs :
    /\ scan[p] = "done" /\ result[p] = "Ok"
    /\ pc[q] = "done" /\ op[q] = "place_bet" /\ result[q] = "Database" /\ scan[q] = "none"

(* ------------------------ claims: atomic outcome ---------------------- *)
Running(p) == op[p] = "place_bet" /\ pc[p] \notin {"idle", "done"}

\* a step in which an operation returns commits all of its writes or none;
\* every other step leaves the committed rows alone
AtomicOutcome ==
  /\ \A p \in Procs :
       (Running(p) /\ pc'[p] = "done") =>
         \/ /\ result'[p] = "Ok"
            /\ BetsOf(bets, NewBetId(p)) = {} /\ BetsOf(bets', NewBetId(p)) # {}
            /\ AuditsOf(transactions, NewBetId(p)) = {}
            /\ AuditsOf(transactions', NewBetId(p)) # {}
            /\ wallets' # <<>>
            /\ \A i \in DOMAIN wallets' : WalletBalance(wallets'[i]) = Some(loc[p].new_balance)
         \/ /\ result'[p] \notin {"Ok", "none"}
            /\ UNCHANGED <<wallets, bets, transactions>>
  /\ (\A p \in Procs : ~(pc[p] # "done" /\ pc'[p] = "done")) =>
       UNCHANGED <<wallets, bets, transactions>>

\* C14: every placement that has begun returns, committed with its bet, or
\* rolled back with an error; at the step it returns the bet, the audit row
\* and the wallet update become visible together or not at all, and nothing
\* of it is visible before.
C14_CommitsWhollyOrAborts ==
  /\ [][AtomicOutcome]_vars
  /\ \A p \in Procs : Running(p) ~> (pc[p] = "done" /\ result[p] # "none")

C14_Witness ==
  \E p, q \in Procs :
    /\ op[p] = "place_bet" /\ pc[p] = "done" /\ result[p] = "Ok"
    /\ BetsOf(bets, NewBetId(p)) # {}
    /\ op[q] = "place_bet" /\ pc[q] = "done" /\ result[q] = "InsufficientFunds"
    /\ BetsOf(bets, NewBetId(q)) = {}

(* ---------------------- claims: the pipeline's checks ----------------- *)
\* p leaves the pipeline step named by at, with no fault of the store
Leaves(p, at) ==
  /\ op[p] = "place_bet" /\ pc[p] = at
  /\ pc'[p] # at \/ loc'[p].window # loc[p].window
  /\ ~loc'[p].store_fault

CurrentOdds(p) ==
  get_current_odds(Events[req[p].event_id], req[p].bet_type, req[p].selection)

SpentWithin(p, days) ==
  SumSeq([i \in DOMAIN bets |->
            IF bets[i].status # "CANCELLED" /\ bets[i].created_at > loc[p].tx_start - days * Day
            THEN bets[i].amount ELSE 0])

CapOf(w) ==
  LET limits == Unwrap(gambling_limits)
  IN  Unwrap(CASE w = 1 -> limits.daily_bet_limit
               [] w = 2 -> limits.weekly_bet_limit
               [] OTHER -> limits.monthly_bet_limit)

DaysOf(w) == CASE w = 1 -> 1 [] w = 2 -> 7 [] OTHER -> 30

\* C16: the check of a configured window cap returns BetLimitExceeded exactly
\* when the stakes of the trailing window plus the new stake exceed the cap;
\* a total equal to the cap passes.
C16_WindowCapInclusive ==
  [][\A p \in Procs :
       Leaves(p, "period") =>
          LET w == loc[p].window
          IN  IF SpentWithin(p, DaysOf(w)) + req[p].amount > CapOf(w)
              THEN result'[p] = "BetLimitExceeded" /\ pc'[p] = "done"
              ELSE result'[p] = "none" /\ pc'[p] \in {"period", "create_bet"}]_vars

C16_Witness ==
  \E p, q \in Procs :
    /\ p # q /\ Returned(p) /\ result[p] = "Ok"
    /\ op[q] = "place_bet" /\ pc[q] = "create_bet" /\ loc[q].window = 4
    /\ BetsOf(bets, NewBetId(p)) # {}
    /\ IsSome(gambling_limits) /\ IsSome(Unwrap(gambling_limits).monthly_bet_limit)
    /\ SpentWithin(q, 30) > 0
    /\ SpentWithin(q, 30) + req[q].amount = CapOf(3)

\* C17: a subject without a limits record is never denied by the limit
\* check and gets no store error from it: the placement goes on to the odds
\* check.
C17_NoLimitsRecordApproves ==
  /\ [](gambling_limits = NoneV =>
          \A p \in Procs : result[p] \notin {"BetLimitExceeded", "AccountLocked"})
  /\ [][\A p \in Procs :
          (Leaves(p, "limits") /\ gambling_limits = NoneV) =>
             result'[p] = "none" /\ pc'[p] = "create_bet"]_vars

C17_Witness ==
  /\ gambling_limits = NoneV
  /\ \E p \in Procs : Returned(p) /\ result[p] = "Ok" /\ req[p].amount = 1000

\* C18: the potential payout stored on a bet is the stake multiplied by the
\* event's current odds for the bet's market and selection.
C18_PayoutUsesCurrentOdds ==
  \A i \in DOMAIN bets :
    bets[i].potential_win =
      bets[i].amount * Unwrap(get_current_odds(Events[bets[i].event_id],
                                               bets[i].bet_type, bets[i].selection))

\* C19: a placement for a market and selection the event does not offer
\* does not return the error kind of a stake below the floor.
C19_UnofferedSelectionHasOwnError ==
  \A p \in Procs :
    (/\ Returned(p) /\ req[p].event_id \in DOMAIN Events
     /\ CurrentOdds(p) = NoneV /\ req[p].amount >= 100) => result[p] # "InvalidBetAmount"

\* C20: a placement returns the invalid-stake error exactly when its stake
\* is below 1.00.
C20_InvalidStakeIffBelowFloor ==
  \A p \in Procs :
    (Returned(p) /\ result[p] = "InvalidBetAmount") => req[p].amount < 100

(* --------------------- claims: sessions and tokens -------------------- *)
\* a session that exists, is active and has not timed out
Live(id) ==
  /\ IsSome(get_session(id))
  /\ Unwrap(get_session(id)).is_active
  /\ auth_now - Unwrap(get_session(id)).last_activity <= session_timeout_minutes

\* the session check would let these claims through
Passes(claims) ==
  /\ Live(claims.session_id)
  /\ to_string(Unwrap(get_session(claims.session_id)).user_id) = claims.sub

ValidationStep == apc \in {"ensure", "remove"} /\ apc' # apc

SessionExpired == Some([kind |-> "SessionExpired", claims |-> NoneV])

\* C21: after create_session the session is there, active, for that user;
\* after invalidate_session (or a removal by validation or cleanup) it is
\* gone until create_session inserts it again; validate_token returns
\* SessionExpired for a session that is absent, inactive, timed out or of
\* another user, and no step of validation makes such a session live.
C21_SessionLifecycle ==
  /\ [](\A id \in SessionIds :
          /\ last_write[id].method = "create_session" =>
               /\ IsSome(get_session(id))
               /\ Unwrap(get_session(id)).is_active
               /\ Unwrap(get_session(id)).user_id = last_write[id].user_id
          /\ last_write[id].method \in
               {"invalidate_session", "ensure_active_session", "cleanup_expired_sessions"} =>
               get_session(id) = NoneV)
  /\ [][ValidationStep =>
          LET claims == Unwrap(atoken).claims
          IN  /\ (apc = "ensure" /\ ~Passes(claims)) =>
                   apc' = "remove" \/ aresult' = SessionExpired
              /\ apc = "remove" =>
                   aresult' = SessionExpired /\ get_session(claims.session_id)' = NoneV
              /\ \A id \in SessionIds :
                   /\ ~Live(id) => ~Live(id)'
                   /\ (IsSome(get_session(id)) /\ IsSome(get_session(id)')) =>
                        Unwrap(get_session(id)').user_id = Unwrap(get_session(id)).user_id]_vars

C21_Witness ==
  /\ last_write["test_session_123"].method = "invalidate_session"
  /\ last_write["test_session_456"].method = "ensure_active_session"
  /\ apc = "idle" /\ aresult = SessionExpired
  /\ auth_now > session_timeout_minutes

\* the tokens this service signed
OwnTokens == { t \in issued : t.signature = Hmac(jwt_secret, t.claims) }

\* C22: validate_token accepts a token that generate_token of the same
\* service produced and returns its claims: sub, email and session_id are the
\* user's id, the user's email and the session id given.
C22_GeneratedTokenIsAccepted ==
  (apc = "idle" /\ IsSome(aresult) /\ Unwrap(atoken) \in OwnTokens
     /\ Unwrap(atoken).claims.iat = auth_now) =>
    /\ Unwrap(aresult).kind = "Ok"
    /\ Unwrap(aresult).claims = Some(Unwrap(atoken).claims)
    /\ \E u \in AuthUsers :
         /\ Unwrap(atoken).claims.sub = to_string(u.id)
         /\ Unwrap(atoken).claims.email = u.email

(* ------------------- claims: the order of the checks ------------------ *)
\* what place_bet returns at the step it leaves, by the rules of that step
\* in the order the claim gives; "none" when the step lets the request on
StepVerdict(p) ==
  CASE pc[p] = "fetch_event" ->
         IF req[p].event_id \notin DOMAIN Events THEN "EventNotFound"
         ELSE IF ~EventOpenAt(req[p].event_id, now) THEN "EventNotAvailable"
         ELSE IF req[p].amount < 100 THEN "InvalidBetAmount"
         ELSE "none"
    [] pc[p] = "get_wallet" ->
         IF Unwrap(WalletBalance(wallets[1])) < req[p].amount THEN "InsufficientFunds"
         ELSE "none"
    [] pc[p] = "limits" ->
         IF gambling_limits = NoneV THEN "none"
         ELSE IF IsSome(Unwrap(gambling_limits).self_exclusion_until)
                 /\ now < Unwrap(Unwrap(gambling_limits).self_exclusion_until)
           THEN "AccountLocked"
         ELSE IF IsSome(Unwrap(gambling_limits).max_single_bet)
                 /\ Unwrap(Unwrap(gambling_limits).max_single_bet) < req[p].amount
           THEN "BetLimitExceeded"
         ELSE "none"
    [] pc[p] = "period" ->
         IF SpentWithin(p, DaysOf(loc[p].window)) + req[p].amount > CapOf(loc[p].window)
         THEN "BetLimitExceeded" ELSE "none"
    [] pc[p] = "create_bet" ->
         IF CurrentOdds(p) = NoneV THEN "InvalidBetAmount"
         ELSE IF req[p].odds - Unwrap(CurrentOdds(p)) \notin -5..5 THEN "OddsChanged"
         ELSE "none"
    [] OTHER -> "none"

\* the step that follows each step of the pipeline when it lets the request on
StepAfter(p) ==
  CASE pc[p] = "fetch_event" -> {"get_wallet"}
    [] pc[p] = "get_wallet" -> {"limits"}
    [] pc[p] \in {"limits", "period"} -> {"period", "create_bet"}
    [] pc[p] = "create_bet" -> {"update_wallet"}
    [] OTHER -> {}

CheckSteps == {"fetch_event", "get_wallet", "limits", "period", "create_bet"}

\* C23: place_bet checks in the order event lookup, event availability,
\* stake floor, funds, limits, odds: each step returns the error of its own
\* first broken rule, whatever later rules the request also breaks, and
\* otherwise hands the request to the next step.
C23_EarliestViolationWins ==
  [][\A p \in Procs :
       (pc[p] \in CheckSteps /\ Leaves(p, pc[p])) =>
          IF StepVerdict(p) = "none"
          THEN result'[p] = "none" /\ pc'[p] \in StepAfter(p)
          ELSE result'[p] = StepVerdict(p) /\ pc'[p] = "done"]_vars

SelfExcluded ==
  /\ IsSome(gambling_limits) /\ IsSome(Unwrap(gambling_limits).self_exclusion_until)
  /\ now < Unwrap(Unwrap(gambling_limits).self_exclusion_until)

C23_Witness ==
  \E p, q \in Procs :
    /\ Returned(p) /\ result[p] = "EventNotAvailable" /\ req[p].amount < 100
    /\ Returned(q) /\ result[q] = "AccountLocked" /\ req[q].odds = 211 /\ SelfExcluded

\* the first window from w on that has a cap, 4 when none has
FirstCapped(w) ==
  IF w <= 1 /\ IsSome(Unwrap(gambling_limits).daily_bet_limit) THEN 1
  ELSE IF w <= 2 /\ IsSome(Unwrap(gambling_limits).weekly_bet_limit) THEN 2
  ELSE IF w <= 3 /\ IsSome(Unwrap(gambling_limits).monthly_bet_limit) THEN 3
  ELSE 4

\* C24: the limit check looks at the self-exclusion, then the single-bet
\* cap, then the daily, weekly and monthly windows, and returns the first
\* denial: AccountLocked while self_exclusion_until > now whatever the caps, no
\* denial from a self-exclusion that is <= now, BetLimitExceeded from the
\* single-bet cap only when stake > cap.
C24_LimitRulesInOrder ==
  [][\A p \in Procs :
       /\ (Leaves(p, "limits") /\ IsSome(gambling_limits)) =>
            IF SelfExcluded THEN result'[p] = "AccountLocked"
            ELSE IF IsSome(Unwrap(gambling_limits).max_single_bet)
                    /\ req[p].amount > Unwrap(Unwrap(gambling_limits).max_single_bet)
              THEN result'[p] = "BetLimitExceeded"
            ELSE /\ result'[p] = "none"
                 /\ loc'[p].window = FirstCapped(1)
                 /\ pc'[p] = IF FirstCapped(1) = 4 THEN "create_bet" ELSE "period"
       /\ (Leaves(p, "period") /\ result'[p] = "none") =>
            /\ loc'[p].window = FirstCapped(loc[p].window + 1)
            /\ pc'[p] = IF FirstCapped(loc[p].window + 1) = 4 THEN "create_bet" ELSE "period"]_vars

C24_Witness ==
  \E p, q \in Procs :
    /\ IsSome(gambling_limits) /\ IsSome(Unwrap(gambling_limits).max_single_bet)
    /\ IsSome(Unwrap(gambling_limits).self_exclusion_until)
    /\ Returned(p) /\ result[p] = "AccountLocked"
    /\ req[p].amount > Unwrap(Unwrap(gambling_limits).max_single_bet)
    /\ now = Unwrap(Unwrap(gambling_limits).self_exclusion_until)
    /\ op[q] = "place_bet" /\ pc[q] = "period" /\ loc[q].window = FirstCapped(1)
    /\ req[q].amount = Unwrap(Unwrap(gambling_limits).max_single_bet)

(* -------------------- claims: buckets over time ----------------------- *)
\* the histories of all buckets, each with its max_requests and window
Buckets ==
  {[h |-> direct_history, N |-> DirectMax, W |-> DirectWindow]}
  \cup { [h |-> history[l][k], N |-> LimiterQuota(l).max_burst,
          W |-> LimiterQuota(l).replenish_1_per] : l \in KeyedLimiters, k \in Keys }

\* call i is the first after a pause of a full window, or the first of all
AfterFullWindow(h, i, W) == i = 1 \/ h[i].at >= h[i - 1].at + W

\* C26: once a full window has passed without calls, the next N calls of
\* check() succeed, N the bucket's max_requests.
C26_FullQuotaEachWindow ==
  \A b \in Buckets :
    \A i \in 1..Len(b.h) :
      AfterFullWindow(b.h, i, b.W) =>
        \A j \in i..Len(b.h) : j < i + b.N => b.h[j].ok

C29_AuditChainGapFree ==
  (/\ Len(wallets) = 1
   /\ \A i \in DOMAIN transactions : transactions[i].transaction_type = "BET_PLACED") =>
    /\ \A i \in 2..Len(transactions) :
         transactions[i].balance_before = transactions[i - 1].balance_after
    /\ Len(transactions) > 0 =>
         WalletBalance(wallets[1]) = Some(transactions[Len(transactions)].balance_after)

(* ---------------------- claims: the velocity alert -------------------- *)
\* the subject's committed bets of the last ten minutes
TrailingTenMinutes == Cardinality({i \in DOMAIN bets : now - bets[i].created_at < 10})

BetTokens == history["bet_limiter"]["A"]
Gets(p, err) == result'[p] = err /\ result[p] # err
InTransaction(p) == pc[p] \notin {"idle", "check_bet_limit", "admitted", "done"}

\* C25: in the placement handler the subject's rate-limit check comes before
\* the transaction: a request begins its transaction only after the limiter
\* admitted it, a request refused with RateLimitExceeded has begun none and
\* leaves bets, audit rows and wallets as they were, and a request rejected
\* by validation takes no token from the limiter.
C25_RateCheckBeforeTransaction ==
  [][\A p \in Procs :
       /\ (InTransaction(p)' /\ ~InTransaction(p)) =>
            /\ pc[p] = "admitted"
            /\ \E i \in DOMAIN BetTokens : BetTokens[i].ok
       /\ (pc'[p] = "admitted" /\ pc[p] # "admitted") =>
            /\ Len(BetTokens') = Len(BetTokens) + 1
            /\ BetTokens'[Len(BetTokens')].ok
       /\ Gets(p, "RateLimitExceeded") =>
            /\ ~InTransaction(p) /\ pc'[p] = "done"
            /\ tx[p] = NoTx /\ loc[p] = NoLoc
            /\ UNCHANGED <<wallets, bets, transactions, tx, wallet_lock>>
            /\ Len(BetTokens') = Len(BetTokens) + 1
            /\ ~BetTokens'[Len(BetTokens')].ok
       /\ Gets(p, "Validation") =>
            UNCHANGED <<keyed_limiters, created, history>>]_vars

C25_Witness ==
  \E p, q \in Procs :
    /\ result[p] = "RateLimitExceeded" /\ tx[p] = NoTx
    /\ result[q] = "Ok" /\ Len(bets) = 1
    /\ Len(BetTokens) = 2

(* ----------------------- claims: wallet uniqueness -------------------- *)
\* C27: the subject never has more than one committed wallet row, whatever
\* the interleaving of register, get_balance, deposit and withdraw, and the
\* wallet row get_balance creates on finding none is written in the
\* transaction that read: it becomes visible only at that transaction's commit.
C27_OneWalletPerSubject ==
  [][/\ Len(wallets') <= 1
     /\ \A p \in Procs :
          (op[p] = "get_balance" /\ pc'[p] # pc[p] /\ wallets' # wallets) =>
            pc[p] = "commit"]_vars
====
